---------------------------- MODULE Spec2Model ----------------------------
(***************************************************************************)
(* Text transformation and frequency pipeline of nubisary                  *)
(* (src/src/text_processor.py, src/src/wordcloud_service.py).              *)
(*                                                                         *)
(* A text is a sequence of one-character strings.  The pure functions of   *)
(* text_processor.py are operators over such sequences, written from the   *)
(* statements of the Python code; process_text_to_frequencies is a state   *)
(* machine with one action per stage of the function body.                 *)
(***************************************************************************)
EXTENDS Integers, Sequences, FiniteSets, TLC

VARIABLES
    pc,              \* position in process_text_to_frequencies / in a direct call
    args,            \* the arguments of the running call
    text,            \* local `text` of process_text_to_frequencies
    text_processed,  \* local `text_processed`
    frequencies,     \* local `frequencies` (the returned map)
    error,           \* the exception leaving the call ("none" while none)
    trace,           \* the stages executed so far, each with its input and output
    ret              \* return value of a direct call of a pure function

vars == <<pc, args, text, text_processed, frequencies, error, trace, ret>>

None == "None"

\* an Optional[str] argument that is None
NoText == <<"None">>

-----------------------------------------------------------------------------
(* Characters and character classes (Python str / re semantics).           *)

UpperSeq ==
    <<"A", "B", "C", "D", "E", "F", "G", "H", "I", "J", "K", "L", "M",
      "N", "O", "P", "Q", "R", "S", "T", "U", "V", "W", "X", "Y", "Z", "Í">>
LowerSeq ==
    <<"a", "b", "c", "d", "e", "f", "g", "h", "i", "j", "k", "l", "m",
      "n", "o", "p", "q", "r", "s", "t", "u", "v", "w", "x", "y", "z", "í">>

LowerLetters == { LowerSeq[i] : i \in 1..Len(LowerSeq) }
UpperLetters == { UpperSeq[i] : i \in 1..Len(UpperSeq) }
Digits       == {"0", "1", "2", "3", "4", "5", "6", "7", "8", "9"}
Whitespace   == {" ", "\n", "\t"}

\* re: \w
IsWord(c)  == c \in LowerLetters \cup UpperLetters \cup Digits \cup {"_"}
\* re: \s, str.isspace
IsSpace(c) == c \in Whitespace
\* re: \d
IsDigit(c) == c \in Digits

\* str.lower() on one character
LowerChar(c) ==
    IF \E i \in 1..Len(UpperSeq) : UpperSeq[i] = c
    THEN LowerSeq[CHOOSE i \in 1..Len(UpperSeq) : UpperSeq[i] = c]
    ELSE c

\* str.lower()
lower(s) == [i \in 1..Len(s) |-> LowerChar(s[i])]

\* str.isupper() of one character (word[0].isupper())
IsUpperChar(c) == c \in UpperLetters

RECURSIVE Flatten(_)
\* ''.join(parts)
Flatten(parts) ==
    IF parts = <<>> THEN <<>> ELSE Head(parts) \o Flatten(Tail(parts))

RECURSIVE JoinWith(_, _)
\* sep.join(parts)
JoinWith(parts, sep) ==
    IF parts = <<>> THEN <<>>
    ELSE IF Len(parts) = 1 THEN parts[1]
    ELSE parts[1] \o sep \o JoinWith(Tail(parts), sep)

RECURSIVE ReplaceChar(_, _, _)
\* str.replace(c, rep) for a one-character c
ReplaceChar(s, c, rep) ==
    IF s = <<>> THEN <<>>
    ELSE (IF Head(s) = c THEN rep ELSE <<Head(s)>>) \o ReplaceChar(Tail(s), c, rep)

RECURSIVE ReplaceEach(_, _, _)
\* for ch in chars: s = s.replace(ch, rep)
ReplaceEach(s, chars, rep) ==
    IF chars = <<>> THEN s
    ELSE ReplaceEach(ReplaceChar(s, Head(chars), rep), Tail(chars), rep)

RECURSIVE ScanToSpace(_, _)
\* first index j >= i that is past the end or holds a whitespace character
ScanToSpace(s, i) ==
    IF i > Len(s) \/ IsSpace(s[i]) THEN i ELSE ScanToSpace(s, i + 1)

RECURSIVE ScanToNonSpace(_, _)
ScanToNonSpace(s, i) ==
    IF i > Len(s) \/ ~IsSpace(s[i]) THEN i ELSE ScanToNonSpace(s, i + 1)

RECURSIVE ScanToNonWord(_, _)
ScanToNonWord(s, i) ==
    IF i > Len(s) \/ ~IsWord(s[i]) THEN i ELSE ScanToNonWord(s, i + 1)

RECURSIVE ScanToChar(_, _, _)
ScanToChar(s, i, c) ==
    IF i > Len(s) \/ s[i] = c THEN i ELSE ScanToChar(s, i + 1, c)

RECURSIVE CollapseFrom(_, _)
CollapseFrom(s, i) ==
    IF i > Len(s) THEN <<>>
    ELSE IF IsSpace(s[i]) THEN <<" ">> \o CollapseFrom(s, ScanToNonSpace(s, i))
    ELSE <<s[i]>> \o CollapseFrom(s, i + 1)

\* normalize_spaces: re.sub(r'\s+', ' ', text)
normalize_spaces(s) == CollapseFrom(s, 1)

RECURSIVE LStrip(_)
LStrip(s) == IF s # <<>> /\ IsSpace(Head(s)) THEN LStrip(Tail(s)) ELSE s

RECURSIVE RStrip(_)
RStrip(s) ==
    IF s # <<>> /\ IsSpace(s[Len(s)]) THEN RStrip(SubSeq(s, 1, Len(s) - 1)) ELSE s

\* str.strip()
strip(s) == RStrip(LStrip(s))

RECURSIVE SubDigitFrom(_, _)
SubDigitFrom(s, i) ==
    IF i > Len(s) THEN <<>>
    ELSE IF IsSpace(s[i]) THEN <<s[i]>> \o SubDigitFrom(s, i + 1)
    ELSE LET j == ScanToSpace(s, i)
         IN  (IF \E k \in i..(j - 1) : IsDigit(s[k])
              THEN <<" ">> ELSE SubSeq(s, i, j - 1))
             \o SubDigitFrom(s, j)

\* re.sub(r'\S*\d\S*', ' ', text): every run of non-space characters that
\* holds a digit becomes one space
RemoveDigitTokens(s) == SubDigitFrom(s, 1)

RECURSIVE TokensFrom(_, _)
TokensFrom(s, i) ==
    IF i > Len(s) THEN <<>>
    ELSE IF ~IsWord(s[i]) THEN TokensFrom(s, i + 1)
    ELSE LET j == ScanToNonWord(s, i)
         IN  <<SubSeq(s, i, j - 1)>> \o TokensFrom(s, j)

\* re.findall(r'\b\w+\b', text): the maximal runs of word characters
FindWords(s) == TokensFrom(s, 1)

RECURSIVE SplitFrom(_, _, _)
SplitFrom(s, i, sep) ==
    LET j == ScanToChar(s, i, sep)
    IN  IF j > Len(s) THEN <<SubSeq(s, i, Len(s))>>
        ELSE <<SubSeq(s, i, j - 1)>> \o SplitFrom(s, j + 1, sep)

\* str.split(sep) for a one-character sep
split(s, sep) == SplitFrom(s, 1, sep)

-----------------------------------------------------------------------------
(* src/src/config.py and the literals of preprocess_text                   *)

PUNCTUATION ==
    <<"!", "(", ")", "-", "[", "]", "{", "}", ";", ":", "'", "\"", ",", "<",
      ">", ".", "/", "?", "@", "#", "$", "%", "^", "&", "*", "_", "~">>

\* ' <SENT> '
SENT_MARKER == <<" ", "<", "S", "E", "N", "T", ">", " ">>

\* the delimiters replaced by the marker, in the order of the code
SENT_DELIMITERS == <<".", "!", "?", ";", "\n">>

\* '''()-[]{};:'",<>./?@#$%^&*_~'''.replace('.', '').replace('!', '')
\*                                  .replace('?', '').replace(';', '')
other_punct ==
    ReplaceEach(
        <<"(", ")", "-", "[", "]", "{", "}", ";", ":", "'", "\"", ",", "<",
          ">", ".", "/", "?", "@", "#", "$", "%", "^", "&", "*", "_", "~">>,
        <<".", "!", "?", ";">>, <<>>)

PreserveMut(s) == ReplaceEach(s, SENT_DELIMITERS, SENT_MARKER)

\* the preserve_sentence_boundaries branch of preprocess_text
PreserveBoundaries(s) ==
    ReplaceEach(ReplaceEach(s, SENT_DELIMITERS, SENT_MARKER), other_punct, <<" ">>)

\* the else branch: every PUNCTUATION character becomes a space
ReplacePunctuation(s) == ReplaceEach(s, PUNCTUATION, <<" ">>)

preprocess_text(t, case_sensitive, include_numbers, preserve_sentence_boundaries) ==
    LET t0 == IF ~include_numbers THEN RemoveDigitTokens(t) ELSE t
        t1 == IF preserve_sentence_boundaries
              THEN PreserveBoundaries(t0) ELSE ReplacePunctuation(t0)
        t2 == normalize_spaces(t1)
        t3 == strip(t2)
    IN  IF ~case_sensitive THEN lower(t3) ELSE t3

-----------------------------------------------------------------------------
(* generate_word_count_from_text                                           *)

\* nltk's stopwords.words(language): the word list of a language that has
\* one (here the entries of the list that the model's texts can hold); for
\* any other language the corpus reader finds no file and raises.
SupportedStopwordLanguages ==
    {"english", "spanish", "french", "german", "italian", "portuguese"}

StopwordList(language) ==
    CASE language = "english"
           -> { <<"a">>, <<"a", "n">>, <<"t", "h", "e">>, <<"s">>, <<"t">>, <<"d">> }
      [] language = "spanish"
           -> { <<"a">>, <<"d", "e">>, <<"e", "l">>, <<"l", "a">>, <<"y">> }
      [] language = "french"     -> { <<"d", "e">>, <<"l", "a">>, <<"e", "t">> }
      [] language = "german"     -> { <<"d", "e", "r">>, <<"u", "n", "d">> }
      [] language = "italian"    -> { <<"l", "a">>, <<"d", "i">> }
      [] language = "portuguese" -> { <<"a">>, <<"d", "e">> }
      [] OTHER -> {}

stopwords_words(language) ==
    IF language \in SupportedStopwordLanguages
    THEN [raised |-> FALSE, value |-> StopwordList(language)]
    ELSE [raised |-> TRUE, value |-> "OSError"]

\* str.isdigit()
isdigit(tok) == tok # <<>> /\ \A i \in 1..Len(tok) : IsDigit(tok[i])

\* re.search(r'\d', tok)
HasDigit(tok) == \E i \in 1..Len(tok) : IsDigit(tok[i])

RECURSIVE Filter(_, _)
\* [token for token in tokens if token not in drop]
Filter(tokens, drop) ==
    IF tokens = <<>> THEN <<>>
    ELSE (IF Head(tokens) \in drop THEN <<>> ELSE <<Head(tokens)>>)
         \o Filter(Tail(tokens), drop)

RECURSIVE FilterDigits(_)
\* [token for token in tokens if not token.isdigit()]
FilterDigits(tokens) ==
    IF tokens = <<>> THEN <<>>
    ELSE (IF isdigit(Head(tokens)) THEN <<>> ELSE <<Head(tokens)>>)
         \o FilterDigits(Tail(tokens))

RECURSIVE CounterFrom(_, _)
CounterFrom(items, i) ==
    IF i > Len(items) THEN <<>>
    ELSE (IF \E j \in 1..(i - 1) : items[j] = items[i] THEN <<>>
          ELSE << [key   |-> items[i],
                   count |-> Cardinality({ j \in 1..Len(items) : items[j] = items[i] })] >>)
         \o CounterFrom(items, i + 1)

\* dict(Counter(items)): one entry per distinct item, in the order of first
\* occurrence (a dict keeps insertion order)
Counter(items) == CounterFrom(items, 1)

\* the token the bigram loop compares against: 'sent'
SENT_TOKEN == <<"s", "e", "n", "t">>

SkipsPairMut(token_a, token_b) == token_a = SENT_TOKEN /\ token_b = SENT_TOKEN

\* if token_a == 'sent' or token_b == 'sent': continue
SkipsPair(token_a, token_b) == token_a = SENT_TOKEN \/ token_b = SENT_TOKEN

RECURSIVE BigramsFrom(_, _, _)
\* the for loop over range(len(tokens) - 1)
BigramsFrom(tokens, i, include_numbers) ==
    IF i > Len(tokens) - 1 THEN <<>>
    ELSE LET token_a == tokens[i]
             token_b == tokens[i + 1]
         IN  (IF SkipsPair(token_a, token_b) THEN <<>>
              ELSE IF ~include_numbers /\ (HasDigit(token_a) \/ HasDigit(token_b))
                   THEN <<>>
              ELSE << token_a \o <<" ">> \o token_b >>)
             \o BigramsFrom(tokens, i + 1, include_numbers)

\* the tokens left after the stopword and the pure-digit filter
SurvivingTokens(t, stopword_set, include_numbers) ==
    LET tokens == Filter(FindWords(t), stopword_set)
    IN  IF ~include_numbers THEN FilterDigits(tokens) ELSE tokens

\* ngram.lower() for the spellings the model passes
ngram_lower(ngram) == IF ngram = "BIGRAM" THEN "bigram" ELSE ngram

\* ngram.lower().strip()
ngram_lower_strip(ngram) == ngram_lower(ngram)

\* the result is [raised |-> FALSE, value |-> the map] or
\* [raised |-> TRUE, value |-> the exception]
generate_word_count_from_text(t, language, include_stopwords, ngram, include_numbers) ==
    LET sw == IF ~include_stopwords THEN stopwords_words(language)
              ELSE [raised |-> FALSE, value |-> {}]
    IN  IF sw.raised THEN sw
        ELSE LET tokens == SurvivingTokens(t, sw.value, include_numbers)
                 ng == ngram_lower_strip(ngram)
             IN  IF ng \notin {"unigram", "bigram"}
                 THEN [raised |-> TRUE, value |-> "ValueError"]
                 ELSE IF ng = "unigram"
                 THEN [raised |-> FALSE, value |-> Counter(tokens)]
                 ELSE IF Len(tokens) < 2
                 THEN [raised |-> FALSE, value |-> <<>>]
                 ELSE [raised |-> FALSE,
                       value  |-> Counter(BigramsFrom(tokens, 1, include_numbers))]

Keys(freq) == { freq[i].key : i \in 1..Len(freq) }

-----------------------------------------------------------------------------
(* re.sub for the patterns remove_excluded_text and                        *)
(* apply_literal_replacements build: re.escape(item), by itself or between *)
(* two \b.  A compiled pattern is a sequence of elements: a literal        *)
(* character or a word boundary; such a pattern never matches the empty    *)
(* string.                                                                 *)

Lit(c) == [k |-> "lit", c |-> c]
WordBoundary == [k |-> "wb", c |-> ""]

\* re.escape(item), compiled
Escaped(item) == [i \in 1..Len(item) |-> Lit(item[i])]

\* re.IGNORECASE comparison of two characters
CharEq(a, b, ignorecase) == IF ignorecase THEN LowerChar(a) = LowerChar(b) ELSE a = b

\* \b at the position before s[i] (i = Len(s) + 1: the end)
AtWordBoundary(s, i) ==
    (i > 1 /\ IsWord(s[i - 1])) # (i <= Len(s) /\ IsWord(s[i]))

RECURSIVE MatchAt(_, _, _, _, _)
\* the elements k.. of pattern p matched at s[i]: the index after the
\* match, or 0 when there is none
MatchAt(p, k, s, i, ignorecase) ==
    IF k > Len(p) THEN i
    ELSE IF p[k].k = "wb"
         THEN IF AtWordBoundary(s, i) THEN MatchAt(p, k + 1, s, i, ignorecase) ELSE 0
    ELSE IF i <= Len(s) /\ CharEq(p[k].c, s[i], ignorecase)
         THEN MatchAt(p, k + 1, s, i + 1, ignorecase)
    ELSE 0

RECURSIVE SubFrom(_, _, _, _, _)
SubFrom(p, rep, s, i, ignorecase) ==
    IF i > Len(s) THEN <<>>
    ELSE LET e == MatchAt(p, 1, s, i, ignorecase)
         IN  IF e > i THEN rep \o SubFrom(p, rep, s, e, ignorecase)
             ELSE <<s[i]>> \o SubFrom(p, rep, s, i + 1, ignorecase)

\* re.sub(p, rep, s, flags): every non-overlapping match, leftmost first,
\* replaced by the expanded replacement rep
re_sub(p, rep, s, ignorecase) == SubFrom(p, rep, s, 1, ignorecase)

\* re.search(p, s, flags) is not None
re_search(p, s, ignorecase) ==
    \E i \in 1..Len(s) : MatchAt(p, 1, s, i, ignorecase) > i

RECURSIVE ExpandFrom(_, _, _)
\* the replacement template of re.sub, parsed: [raised, value]
ExpandFrom(repl, i, ngroups) ==
    IF i > Len(repl) THEN [raised |-> FALSE, value |-> <<>>]
    ELSE IF repl[i] # "\\"
    THEN LET rest == ExpandFrom(repl, i + 1, ngroups)
         IN  IF rest.raised THEN rest
             ELSE [raised |-> FALSE, value |-> <<repl[i]>> \o rest.value]
    ELSE IF i = Len(repl) THEN [raised |-> TRUE, value |-> "re.error"]
    ELSE LET c    == repl[i + 1]
             rest == ExpandFrom(repl, i + 2, ngroups)
             one  == IF c = "n" THEN <<"\n">>
                     ELSE IF c = "t" THEN <<"\t">>
                     ELSE IF c = "\\" THEN <<"\\">>
                     ELSE <<"\\", c>>
         IN  IF IsDigit(c) \/ (c \in LowerLetters \cup UpperLetters /\ c \notin {"n", "t"})
             THEN [raised |-> TRUE, value |-> "re.error"]
             ELSE IF rest.raised THEN rest
             ELSE [raised |-> FALSE, value |-> one \o rest.value]

\* the template of a pattern without capture groups: \n, \t and \\ are
\* escapes, a group reference or an unknown letter escape is re.error
ExpandTemplate(repl) == ExpandFrom(repl, 1, 0)

-----------------------------------------------------------------------------
(* remove_excluded_text and apply_literal_replacements                     *)

IgnoreCaseMut(case_sensitive) == FALSE

\* flags = 0 if case_sensitive else re.IGNORECASE
IgnoreCase(case_sensitive) == ~case_sensitive

\* the pattern of one item: exact text for a phrase, \bword\b for a word
ItemPattern(normalized_item) ==
    IF \E i \in 1..Len(normalized_item) : normalized_item[i] = " "
    THEN Escaped(normalized_item)
    ELSE <<WordBoundary>> \o Escaped(normalized_item) \o <<WordBoundary>>

RECURSIVE RemoveItems(_, _, _)
\* for item in excluded_items: ... processed_line = re.sub(pattern, '', ...)
RemoveItems(line, items, case_sensitive) ==
    IF items = <<>> THEN line
    ELSE IF strip(Head(items)) = <<>>
         THEN RemoveItems(line, Tail(items), case_sensitive)
    ELSE RemoveItems(
             re_sub(ItemPattern(normalize_spaces(strip(Head(items)))), <<>>, line,
                    IgnoreCase(case_sensitive)),
             Tail(items), case_sensitive)

\* the body of the loop over the lines
ExcludeLine(line, items, case_sensitive) ==
    normalize_spaces(RemoveItems(normalize_spaces(line), items, case_sensitive))

remove_excluded_text(t, excluded_items, case_sensitive) ==
    IF excluded_items = <<>> THEN t
    ELSE LET lines == split(t, "\n")
         IN  JoinWith([i \in 1..Len(lines) |->
                          ExcludeLine(lines[i], excluded_items, case_sensitive)],
                      <<"\n">>)

RECURSIVE ReplaceItems(_, _, _)
\* for search, replacement in replacements: ... re.sub(pattern, replacement, ...)
ReplaceItems(line, replacements, case_sensitive) ==
    IF replacements = <<>> THEN line
    ELSE IF strip(Head(replacements)[1]) = <<>>
         THEN ReplaceItems(line, Tail(replacements), case_sensitive)
    ELSE ReplaceItems(
             re_sub(ItemPattern(normalize_spaces(strip(Head(replacements)[1]))),
                    ExpandTemplate(Head(replacements)[2]).value, line,
                    IgnoreCase(case_sensitive)),
             Tail(replacements), case_sensitive)

ReplaceLineMut(line, replacements, case_sensitive) ==
    ReplaceItems(normalize_spaces(line), replacements, case_sensitive)

ReplaceLine(line, replacements, case_sensitive) ==
    normalize_spaces(ReplaceItems(normalize_spaces(line), replacements, case_sensitive))

\* re.sub raises re.error for the first pair (with a non-blank search)
\* whose replacement is no valid template
BadTemplate(replacements) ==
    \E i \in 1..Len(replacements) :
        /\ strip(replacements[i][1]) # <<>>
        /\ ExpandTemplate(replacements[i][2]).raised

\* [raised |-> FALSE, value |-> the text] or [raised |-> TRUE, value |-> "re.error"]
apply_literal_replacements(t, replacements, case_sensitive) ==
    IF replacements = <<>> THEN [raised |-> FALSE, value |-> t]
    ELSE IF BadTemplate(replacements) THEN [raised |-> TRUE, value |-> "re.error"]
    ELSE LET lines == split(t, "\n")
         IN  [raised |-> FALSE,
              value  |-> JoinWith([i \in 1..Len(lines) |->
                             ReplaceLine(lines[i], replacements, case_sensitive)],
                             <<"\n">>)]

-----------------------------------------------------------------------------
(* Rule compiler: parse_exclude_words_argument, parse_regex_rule_argument  *)

Ok(v) == [raised |-> FALSE, value |-> v]
Raise(exc, origin) == [raised |-> TRUE, value |-> exc, origin |-> origin]

\* the files of the working directory, as os.path.isfile and open see them
Files ==
    { [path |-> <<"e", "f">>, readable |-> TRUE,
       content |-> <<"b", "\n", "\n", " ", "c", " ", "\n">>],
      [path |-> <<"r", "f">>, readable |-> TRUE,
       content |-> <<"#", "x", "\n", "c", "|", "e", "\n">>],
      [path |-> <<"b", "f">>, readable |-> TRUE,
       content |-> <<"c", "\n", "(", "\n">>],
      [path |-> <<"c", "f">>, readable |-> TRUE,
       content |-> <<"#", "x", "\n", "\n", "c", "|", "e", "\n", "(", "\n",
                     "[", "\n">>],
      [path |-> <<"u", "f">>, readable |-> FALSE, content |-> <<>>] }

isfile(path) == \E f \in Files : f.path = path
FileAt(path) == CHOOSE f \in Files : f.path = path

\* f.readlines()
readlines(content) ==
    LET parts == split(content, "\n")
        n     == Len(parts)
    IN  IF content = <<>> THEN <<>>
        ELSE IF parts[n] = <<>>
             THEN [i \in 1..(n - 1) |-> parts[i] \o <<"\n">>]
        ELSE [i \in 1..n |-> IF i < n THEN parts[i] \o <<"\n">> ELSE parts[i]]

RECURSIVE StripNonEmpty(_)
\* [x.strip() for x in parts if x.strip()]
StripNonEmpty(parts) ==
    IF parts = <<>> THEN <<>>
    ELSE (IF strip(Head(parts)) = <<>> THEN <<>> ELSE <<strip(Head(parts))>>)
         \o StripNonEmpty(Tail(parts))

\* `if not arg or not arg.strip()`
Blank(arg) == arg = NoText \/ strip(arg) = <<>>

ReadErrorMut(path) == Ok(<<>>)

\* `except Exception as e: raise FileHandlerError('Error reading ... file
\* {arg}: {e}')`
ReadError(path) == Raise("FileHandlerError", "io")

parse_exclude_words_argument(exclude_words_arg) ==
    IF Blank(exclude_words_arg) THEN Ok(<<>>)
    ELSE LET arg == strip(exclude_words_arg)
         IN  IF isfile(arg)
             THEN IF FileAt(arg).readable
                  THEN Ok(StripNonEmpty(readlines(FileAt(arg).content)))
                  ELSE ReadError(arg)
             ELSE Ok(StripNonEmpty(split(arg, ",")))

\* the quantifier characters of the pattern fragment the model compiles:
\* literals, escaped literals, ., \d, \s, \w, \b, ^, $, groups, and the
\* greedy quantifiers +, * and ? after a one-character atom
Quantifiers == {"+", "*", "?"}

RECURSIVE PatternError(_, _, _, _)
\* re.compile(p) raises re.error somewhere in p[i..]: a group closed that
\* was not opened or left open, an escape with nothing to escape, an
\* unterminated character set, a quantifier with nothing to repeat
PatternError(p, i, depth, atom) ==
    IF i > Len(p) THEN depth # 0
    ELSE IF p[i] = "\\"
         THEN i = Len(p) \/ PatternError(p, i + 2, depth, p[i + 1] # "b")
    ELSE IF p[i] = "(" THEN PatternError(p, i + 1, depth + 1, FALSE)
    ELSE IF p[i] = ")" THEN depth = 0 \/ PatternError(p, i + 1, depth - 1, TRUE)
    ELSE IF p[i] = "["
         THEN \/ ScanToChar(p, i + 2, "]") > Len(p)
              \/ PatternError(p, ScanToChar(p, i + 2, "]") + 1, depth, TRUE)
    ELSE IF p[i] \in Quantifiers THEN ~atom \/ PatternError(p, i + 1, depth, FALSE)
    ELSE PatternError(p, i + 1, depth, p[i] \notin {"^", "$"})

\* re.compile(pattern) raises no re.error
re_compiles(pattern) == ~PatternError(pattern, 1, 0, FALSE)

\* one element of a compiled rule pattern: kind k, character c, quantifier
\* q ("1": exactly once) and group number g
El(k, c, q, g) == [k |-> k, c |-> c, q |-> q, g |-> g]

\* the quantifier that follows the atom ending before p[j]
QuantAt(p, j) == IF j <= Len(p) /\ p[j] \in Quantifiers THEN p[j] ELSE "1"
\* the position after the atom and its quantifier
AfterQuant(p, j) == IF QuantAt(p, j) = "1" THEN j ELSE j + 1

\* the kind of the atom an escape \c stands for
EscapeKind(c) ==
    IF c = "d" THEN "digit" ELSE IF c = "s" THEN "space"
    ELSE IF c = "w" THEN "word" ELSE IF c = "b" THEN "wb" ELSE "lit"

RECURSIVE CompileFrom(_, _, _, _)
\* sre_parse on p[i..]: g groups opened so far, open the stack of the
\* groups not yet closed
CompileFrom(p, i, g, open) ==
    IF i > Len(p) THEN <<>>
    ELSE IF p[i] = "\\"
         THEN <<El(EscapeKind(p[i + 1]), p[i + 1], QuantAt(p, i + 2), 0)>>
              \o CompileFrom(p, AfterQuant(p, i + 2), g, open)
    ELSE IF p[i] = "("
         THEN <<El("open", "", "1", g + 1)>> \o CompileFrom(p, i + 1, g + 1, <<g + 1>> \o open)
    ELSE IF p[i] = ")"
         THEN <<El("close", "", "1", Head(open))>> \o CompileFrom(p, i + 1, g, Tail(open))
    ELSE IF p[i] = "^" THEN <<El("bol", "", "1", 0)>> \o CompileFrom(p, i + 1, g, open)
    ELSE IF p[i] = "$" THEN <<El("eol", "", "1", 0)>> \o CompileFrom(p, i + 1, g, open)
    ELSE <<El(IF p[i] = "." THEN "any" ELSE "lit", p[i], QuantAt(p, i + 1), 0)>>
         \o CompileFrom(p, AfterQuant(p, i + 1), g, open)

\* the compiled form of a rule pattern
CompileRule(pattern) == CompileFrom(pattern, 1, 0, <<>>)

\* pattern.groups
NumGroups(pattern) ==
    Cardinality({ i \in 1..Len(pattern) :
                    pattern[i] = "(" /\ (i = 1 \/ pattern[i - 1] # "\\") })

\* one character against a one-character atom
AtomMatches(el, ch, ignorecase) ==
    IF el.k = "lit" THEN CharEq(el.c, ch, ignorecase)
    ELSE IF el.k = "any" THEN ch # "\n"
    ELSE IF el.k = "digit" THEN IsDigit(ch)
    ELSE IF el.k = "space" THEN IsSpace(ch)
    ELSE IsWord(ch)

RECURSIVE RunLength(_, _, _, _)
\* how many characters from s[i] on the atom el matches in a row
RunLength(el, s, i, ignorecase) ==
    IF i <= Len(s) /\ AtomMatches(el, s[i], ignorecase)
    THEN 1 + RunLength(el, s, i + 1, ignorecase)
    ELSE 0

\* ^, $ and \b without re.MULTILINE
AssertionHoldsMut(el, s, i) ==
    IF el.k = "bol" THEN i = 1
    ELSE IF el.k = "eol" THEN i = Len(s) + 1 \/ (i = Len(s) /\ s[i] = "\n")
    ELSE AtWordBoundary(s, i)

\* the zero-width elements at the position before s[i], under re.MULTILINE
AssertionHolds(el, s, i) ==
    IF el.k = "bol" THEN i = 1 \/ s[i - 1] = "\n"
    ELSE IF el.k = "eol" THEN i = Len(s) + 1 \/ s[i] = "\n"
    ELSE AtWordBoundary(s, i)

NoMatch == [ok |-> FALSE, e |-> 0, caps |-> <<>>]

Min2(a, b) == IF a < b THEN a ELSE b

RECURSIVE RuleMatchAt(_, _, _, _, _, _)
RECURSIVE TryRepeat(_, _, _, _, _, _, _, _)
\* the elements k.. of the compiled pattern p matched at s[i]: whether
\* they match, the index after the match and the span of every group
RuleMatchAt(p, k, s, i, ignorecase, caps) ==
    IF k > Len(p) THEN [ok |-> TRUE, e |-> i, caps |-> caps]
    ELSE IF p[k].k \in {"bol", "eol", "wb"}
         THEN IF AssertionHolds(p[k], s, i)
              THEN RuleMatchAt(p, k + 1, s, i, ignorecase, caps)
              ELSE NoMatch
    ELSE IF p[k].k = "open"
         THEN RuleMatchAt(p, k + 1, s, i, ignorecase,
                          [caps EXCEPT ![p[k].g] = <<i, i>>])
    ELSE IF p[k].k = "close"
         THEN RuleMatchAt(p, k + 1, s, i, ignorecase,
                          [caps EXCEPT ![p[k].g] = <<caps[p[k].g][1], i>>])
    ELSE TryRepeat(p, k, s, i, ignorecase, caps,
                   IF p[k].q \in {"1", "?"}
                   THEN Min2(1, RunLength(p[k], s, i, ignorecase))
                   ELSE RunLength(p[k], s, i, ignorecase),
                   IF p[k].q \in {"1", "+"} THEN 1 ELSE 0)

\* the greedy repetition of the atom p[k]: n characters first, then fewer,
\* down to least, until the rest of the pattern matches
TryRepeat(p, k, s, i, ignorecase, caps, n, least) ==
    IF n < least THEN NoMatch
    ELSE IF RuleMatchAt(p, k + 1, s, i + n, ignorecase, caps).ok
         THEN RuleMatchAt(p, k + 1, s, i + n, ignorecase, caps)
    ELSE TryRepeat(p, k, s, i, ignorecase, caps, n - 1, least)

\* one part of a parsed replacement template: a character or a group
TLit(c) == [ref |-> 0, c |-> c]
TRef(g) == [ref |-> g, c |-> ""]

DigitSeq == <<"0", "1", "2", "3", "4", "5", "6", "7", "8", "9">>
DigitValue(c) == (CHOOSE n \in 1..10 : DigitSeq[n] = c) - 1

RECURSIVE ParseTemplate(_, _, _)
\* sre_parse.parse_template: the parts of the replacement, or re.error for
\* an escape at the end, an unknown letter escape or a reference to a
\* group the pattern does not have; \N and \NN are group references
ParseTemplate(repl, i, ngroups) ==
    IF i > Len(repl) THEN Ok(<<>>)
    ELSE IF repl[i] # "\\"
    THEN LET rest == ParseTemplate(repl, i + 1, ngroups)
         IN  IF rest.raised THEN rest ELSE Ok(<<TLit(repl[i])>> \o rest.value)
    ELSE IF i = Len(repl) THEN Raise("re.error", "bad_escape")
    ELSE IF IsDigit(repl[i + 1]) /\ repl[i + 1] # "0"
    THEN LET two  == i + 2 <= Len(repl) /\ IsDigit(repl[i + 2])
             g    == IF two THEN 10 * DigitValue(repl[i + 1]) + DigitValue(repl[i + 2])
                     ELSE DigitValue(repl[i + 1])
             rest == ParseTemplate(repl, IF two THEN i + 3 ELSE i + 2, ngroups)
         IN  IF g > ngroups THEN Raise("re.error", "invalid_group_reference")
             ELSE IF rest.raised THEN rest
             ELSE Ok(<<TRef(g)>> \o rest.value)
    ELSE LET c    == repl[i + 1]
             rest == ParseTemplate(repl, i + 2, ngroups)
             one  == IF c = "n" THEN <<TLit("\n")>>
                     ELSE IF c = "t" THEN <<TLit("\t")>>
                     ELSE IF c = "\\" THEN <<TLit("\\")>>
                     ELSE <<TLit("\\"), TLit(c)>>
         IN  IF c \in (LowerLetters \cup UpperLetters) \ {"n", "t"}
             THEN Raise("re.error", "bad_escape")
             ELSE IF rest.raised THEN rest
             ELSE Ok(one \o rest.value)

\* match.expand: the parts with every group reference replaced by the text
\* the group matched
ExpandMatch(parts, s, caps) ==
    Flatten([j \in 1..Len(parts) |->
                IF parts[j].ref = 0 THEN <<parts[j].c>>
                ELSE SubSeq(s, caps[parts[j].ref][1], caps[parts[j].ref][2] - 1)])

\* no group has matched yet
NoCaps(ngroups) == [g \in 1..ngroups |-> <<1, 1>>]

RECURSIVE RuleSubFrom(_, _, _, _, _, _)
\* the scan of re.sub from s[i] on: a match is replaced and the scan goes
\* on after it; an empty match is replaced too and the scan moves one
\* character on
RuleSubFrom(p, parts, s, i, ignorecase, ngroups) ==
    IF i > Len(s) + 1 THEN <<>>
    ELSE IF ~RuleMatchAt(p, 1, s, i, ignorecase, NoCaps(ngroups)).ok
    THEN IF i > Len(s) THEN <<>>
         ELSE <<s[i]>> \o RuleSubFrom(p, parts, s, i + 1, ignorecase, ngroups)
    ELSE IF RuleMatchAt(p, 1, s, i, ignorecase, NoCaps(ngroups)).e = i
    THEN ExpandMatch(parts, s, RuleMatchAt(p, 1, s, i, ignorecase, NoCaps(ngroups)).caps)
         \o (IF i > Len(s) THEN <<>>
             ELSE <<s[i]>> \o RuleSubFrom(p, parts, s, i + 1, ignorecase, ngroups))
    ELSE ExpandMatch(parts, s, RuleMatchAt(p, 1, s, i, ignorecase, NoCaps(ngroups)).caps)
         \o RuleSubFrom(p, parts, s,
                        RuleMatchAt(p, 1, s, i, ignorecase, NoCaps(ngroups)).e,
                        ignorecase, ngroups)

\* re.sub(pattern, replacement, s, flags) of one rule: the new text, or
\* re.error when the pattern or the template does not compile
rule_sub(pattern, replacement, s, ignorecase) ==
    IF ~re_compiles(pattern) THEN Raise("re.error", "pattern")
    ELSE IF ParseTemplate(replacement, 1, NumGroups(pattern)).raised
         THEN ParseTemplate(replacement, 1, NumGroups(pattern))
    ELSE Ok(RuleSubFrom(CompileRule(pattern),
                        ParseTemplate(replacement, 1, NumGroups(pattern)).value,
                        s, 1, ignorecase, NumGroups(pattern)))

\* the characters chr(1)..chr(9) and the digits they stand for
ControlChars == <<"x01", "x02", "x03", "x04", "x05", "x06", "x07", "x08", "x09">>
DigitChars   == <<"1", "2", "3", "4", "5", "6", "7", "8", "9">>

_normalize_backreferences(replacement) ==
    Flatten([i \in 1..Len(replacement) |->
        IF /\ \E n \in 1..Len(ControlChars) : ControlChars[n] = replacement[i]
           /\ (i = 1 \/ replacement[i - 1] # "\\")
        THEN <<"\\", DigitChars[CHOOSE n \in 1..Len(ControlChars) :
                                    ControlChars[n] = replacement[i]]>>
        ELSE <<replacement[i]>>])

\* RegexRule(pattern=..., replacement=...): the dataclass stores both fields
\* as they are given
RegexRule(pattern, replacement) == [pattern |-> pattern, replacement |-> replacement]

\* the error of a pattern that does not compile: its message quotes the
\* pattern
InvalidRule(exc, pattern) ==
    [raised |-> TRUE, value |-> exc, origin |-> "regex_compile", pattern |-> pattern]

\* the validation `re.compile(pattern)` of _parse_single_regex_rule
Compiles(pattern) == re_compiles(pattern)

\* Ok(<<>>) for None, Ok(<<rule>>) for a RegexRule, or the ValueError of an
\* invalid pattern
_parse_single_regex_rule(rule_string) ==
    LET rs      == strip(rule_string)
        bar     == ScanToChar(rs, 1, "|")
        haspipe == bar <= Len(rs)
        pattern == IF haspipe THEN strip(SubSeq(rs, 1, bar - 1)) ELSE rs
        rawrep  == IF haspipe THEN strip(SubSeq(rs, bar + 1, Len(rs))) ELSE <<>>
        replacement == IF rawrep = <<>> THEN NoText
                       ELSE _normalize_backreferences(rawrep)
    IN  IF rs = <<>> \/ pattern = <<>> THEN Ok(<<>>)
        ELSE IF ~Compiles(pattern) THEN InvalidRule("ValueError", pattern)
        ELSE Ok(<<RegexRule(pattern, replacement)>>)

RECURSIVE ParseRuleLinesMut(_, _)
ParseRuleLinesMut(lines, line_num) ==
    IF line_num > Len(lines) THEN Ok(<<>>)
    ELSE IF strip(lines[line_num]) = <<>> \/ strip(lines[line_num])[1] = "#"
         THEN ParseRuleLinesMut(lines, line_num + 1)
    ELSE IF ParseRuleLinesMut(lines, line_num + 1).raised
         THEN ParseRuleLinesMut(lines, line_num + 1)
    ELSE IF _parse_single_regex_rule(strip(lines[line_num])).raised
         THEN [raised |-> TRUE, value |-> "FileHandlerError",
               origin |-> "regex_compile",
               pattern |-> _parse_single_regex_rule(strip(lines[line_num])).pattern,
               line_num |-> line_num]
    ELSE Ok(_parse_single_regex_rule(strip(lines[line_num])).value
            \o ParseRuleLinesMut(lines, line_num + 1).value)

RECURSIVE ParseRuleLines(_, _)
\* the loop over enumerate(lines, 1): the rules, or the error of the first
\* line whose rule does not parse
ParseRuleLines(lines, line_num) ==
    IF line_num > Len(lines) THEN Ok(<<>>)
    ELSE LET line == strip(lines[line_num])
         IN  IF line = <<>> \/ line[1] = "#" THEN ParseRuleLines(lines, line_num + 1)
             ELSE LET rule == _parse_single_regex_rule(line)
                      rest == ParseRuleLines(lines, line_num + 1)
                  IN  IF rule.raised
                      THEN [raised |-> TRUE, value |-> "FileHandlerError",
                            origin |-> "regex_compile", pattern |-> rule.pattern,
                            line_num |-> line_num]
                      ELSE IF rest.raised THEN rest
                      ELSE Ok(rule.value \o rest.value)

parse_regex_rule_argument(regex_rule_arg) ==
    IF Blank(regex_rule_arg) THEN Ok(<<>>)
    ELSE LET arg == strip(regex_rule_arg)
         IN  IF isfile(arg)
             THEN IF FileAt(arg).readable
                  THEN ParseRuleLines(readlines(FileAt(arg).content), 1)
                  ELSE ReadError(arg)
             ELSE LET rule == _parse_single_regex_rule(arg)
                  IN  IF rule.raised THEN InvalidRule("FileHandlerError", rule.pattern)
                      ELSE Ok(rule.value)

\* the re.sub call of one rule: a rule without replacement substitutes ''
RuleStep(result, rule, ignorecase) ==
    rule_sub(rule.pattern,
             IF rule.replacement = NoText THEN <<>> ELSE rule.replacement,
             result, ignorecase)

RuleFailureMut(result, rule, step) == Ok(result)

\* `except re.error as e: raise ValueError('Error applying regex rule
\* "{rule.pattern}": {e}')`
RuleFailure(result, rule, step) ==
    [raised |-> TRUE, value |-> "ValueError", origin |-> "regex_apply",
     pattern |-> rule.pattern, detail |-> step.origin]

RECURSIVE ApplyRulesMut(_, _, _)
ApplyRulesMut(result, rules, ignorecase) ==
    IF rules = <<>> THEN Ok(result)
    ELSE IF rules[Len(rules)].pattern = <<>>
         THEN ApplyRulesMut(result, SubSeq(rules, 1, Len(rules) - 1), ignorecase)
    ELSE IF RuleStep(result, rules[Len(rules)], ignorecase).raised
         THEN RuleFailure(result, rules[Len(rules)],
                          RuleStep(result, rules[Len(rules)], ignorecase))
    ELSE ApplyRulesMut(RuleStep(result, rules[Len(rules)], ignorecase).value,
                       SubSeq(rules, 1, Len(rules) - 1), ignorecase)

RECURSIVE ApplyRules(_, _, _)
\* the loop of apply_regex_transformations
ApplyRules(result, rules, ignorecase) ==
    IF rules = <<>> THEN Ok(result)
    ELSE IF Head(rules).pattern = <<>>
         THEN ApplyRules(result, Tail(rules), ignorecase)
    ELSE IF RuleStep(result, Head(rules), ignorecase).raised
         THEN RuleFailure(result, Head(rules), RuleStep(result, Head(rules), ignorecase))
    ELSE ApplyRules(RuleStep(result, Head(rules), ignorecase).value,
                    Tail(rules), ignorecase)

apply_regex_transformations(t, rules, case_sensitive) ==
    IF rules = <<>> THEN Ok(t) ELSE ApplyRules(t, rules, ~case_sensitive)

-----------------------------------------------------------------------------
(* Lemma resolver: normalize_plurals_with_lemmatization                    *)

\* lang_map.get(language.lower())
lang_map(language) ==
    CASE language = "spanish" -> "es"
      [] language = "english" -> "en"
      [] language = "french"  -> "fr"
      [] language = "german"  -> "de"
      [] language = "italian" -> "it"
      [] language = "portuguese" -> "pt"
      [] OTHER -> None

\* the entries of simplemma's dictionaries that the model's texts can hold
Lexicon(lang) ==
    IF lang = "en"
    THEN { << <<"c", "a", "t", "s">>, <<"c", "a", "t">> >> }
    ELSE IF lang = "es"
    THEN { << <<"c", "a", "s", "a", "s">>, <<"c", "a", "s", "a">> >> }
    ELSE {}

\* the answers of a stand-in for the library that are no usable lemma: the
\* empty string, one character, the word in another case
DegenerateLexicon ==
    { << <<"c", "a", "t", "s">>, <<"c">> >>,
      << <<"l", "u", "c", "e", "s">>, <<>> >>,
      << <<"c", "a", "s", "a", "s">>, <<"C", "A", "S", "A", "S">> >>,
      << <<"C", "a", "t", "s">>, <<"c", "a", "t", "s">> >>,
      << <<"a", "b">>, <<"b", "a">> >> }

\* simplemma.lemmatize(word, lang): the lemma of a known word, the word
\* itself when it is unknown; "failing" is an installation whose call raises,
\* "degenerate" the stand-in
simplemma_lemmatize(word, lang, simplemma) ==
    IF simplemma = "failing" THEN Raise("Exception", "lemmatize")
    ELSE IF simplemma = "degenerate"
    THEN (IF \E e \in DegenerateLexicon : e[1] = word
          THEN Ok((CHOOSE e \in DegenerateLexicon : e[1] = word)[2])
          ELSE Ok(word))
    ELSE IF \E e \in Lexicon(lang) : e[1] = lower(word)
         THEN Ok((CHOOSE e \in Lexicon(lang) : e[1] = lower(word))[2])
    ELSE Ok(word)

\* str.upper() on one character
UpperChar(c) ==
    IF \E i \in 1..Len(LowerSeq) : LowerSeq[i] = c
    THEN UpperSeq[CHOOSE i \in 1..Len(LowerSeq) : LowerSeq[i] = c]
    ELSE c

\* str.capitalize()
capitalize(w) ==
    [i \in 1..Len(w) |-> IF i = 1 THEN UpperChar(w[1]) ELSE LowerChar(w[i])]

\* str.endswith(suffix)
endswith(w, suffix) ==
    Len(w) >= Len(suffix) /\ SubSeq(w, Len(w) - Len(suffix) + 1, Len(w)) = suffix

\* word[:-n]
DropLast(w, n) == SubSeq(w, 1, Len(w) - n)

\* str.islower(): a cased character, and no upper-case one
islower(w) ==
    /\ \E i \in 1..Len(w) : w[i] \in LowerLetters
    /\ \A i \in 1..Len(w) : w[i] \notin UpperLetters

\* `return singular.capitalize() if word[0].isupper() else singular`
KeepCase(word, singular) ==
    IF IsUpperChar(word[1]) THEN capitalize(singular) ELSE singular

Paises == <<"p", "a", "í", "s", "e", "s">>

\* the except branch of lemmatize_word for Spanish
SpanishFallback(word) ==
    LET word_lower == lower(word)
    IN  IF endswith(word_lower, <<"e", "s">>) /\ Len(word_lower) > 4
        THEN IF endswith(word_lower, <<"c", "e", "s">>)
             THEN LET singular == DropLast(word, 3) \o <<"z">>
                  IN  IF Len(singular) >= 3 THEN KeepCase(word, singular) ELSE word
             ELSE IF endswith(word_lower, <<"i", "e", "s">>)
             THEN IF word_lower = Paises
                  THEN (IF islower(word) THEN <<"p", "a", "í", "s">>
                        ELSE <<"P", "a", "í", "s">>)
                  ELSE LET singular == DropLast(word, 3) \o <<"y">>
                       IN  IF Len(singular) >= 3 THEN KeepCase(word, singular) ELSE word
             ELSE LET singular == DropLast(word, 2)
                  IN  IF Len(singular) >= 3 THEN KeepCase(word, singular) ELSE word
        ELSE IF endswith(word_lower, <<"s">>) /\ Len(word_lower) > 3
        THEN LET singular == DropLast(word, 1)
             IN  IF Len(singular) >= 3 THEN KeepCase(word, singular) ELSE word
        ELSE word

\* the callback lemmatize_word(match) of normalize_plurals_with_lemmatization
lemmatize_word(word, simplemma_lang, simplemma) ==
    IF Len(word) < 2 \/ isdigit(word) THEN word
    ELSE LET r == simplemma_lemmatize(word, simplemma_lang, simplemma)
         IN  IF r.raised
             THEN IF simplemma_lang = "es" THEN SpanishFallback(word) ELSE word
             ELSE IF r.value # <<>> /\ lower(r.value) # lower(word) /\ Len(r.value) >= 2
                  THEN (IF IsUpperChar(word[1]) THEN capitalize(r.value) ELSE r.value)
             ELSE word

RECURSIVE LemmatizeFrom(_, _, _, _)
\* re.sub(r'\b\w+\b', lemmatize_word, text)
LemmatizeFrom(s, i, simplemma_lang, simplemma) ==
    IF i > Len(s) THEN <<>>
    ELSE IF ~IsWord(s[i]) THEN <<s[i]>> \o LemmatizeFrom(s, i + 1, simplemma_lang, simplemma)
    ELSE LET j == ScanToNonWord(s, i)
         IN  lemmatize_word(SubSeq(s, i, j - 1), simplemma_lang, simplemma)
             \o LemmatizeFrom(s, j, simplemma_lang, simplemma)

\* simplemma is "missing" when the import failed (SIMPLEMMA_AVAILABLE False)
normalize_plurals_with_lemmatization(t, language, simplemma) ==
    IF simplemma = "missing" THEN t
    ELSE IF lang_map(language) = None THEN t
    ELSE LemmatizeFrom(t, 1, lang_map(language), simplemma)

UsableLemmaMut(lemma, word) == lemma # word

\* `lemma and lemma.lower() != word.lower() and len(lemma) >= 2`
UsableLemma(lemma, word) ==
    lemma # <<>> /\ lower(lemma) # lower(word) /\ Len(lemma) >= 2

SingleWordFallbackMut(word) == DropLast(word, 1)

\* the except branch of normalize_single_word for Spanish
SingleWordFallback(word) ==
    IF endswith(lower(word), <<"e", "s">>) /\ Len(lower(word)) > 4
    THEN IF endswith(lower(word), <<"c", "e", "s">>)
         THEN (IF Len(DropLast(word, 3) \o <<"z">>) >= 3
               THEN KeepCase(word, DropLast(word, 3) \o <<"z">>) ELSE word)
         ELSE IF endswith(lower(word), <<"i", "e", "s">>)
         THEN (IF lower(word) = Paises
               THEN (IF islower(word) THEN <<"p", "a", "í", "s">>
                     ELSE <<"P", "a", "í", "s">>)
               ELSE IF Len(DropLast(word, 3) \o <<"y">>) >= 3
               THEN KeepCase(word, DropLast(word, 3) \o <<"y">>) ELSE word)
         ELSE (IF Len(DropLast(word, 2)) >= 3
               THEN KeepCase(word, DropLast(word, 2)) ELSE word)
    ELSE IF endswith(lower(word), <<"s">>) /\ Len(lower(word)) > 3
    THEN (IF Len(DropLast(word, 1)) >= 3
          THEN KeepCase(word, DropLast(word, 1)) ELSE word)
    ELSE word

\* the try statement of normalize_single_word, r what simplemma.lemmatize did
SingleWordLemma(word, simplemma_lang, r) ==
    IF r.raised
    THEN (IF simplemma_lang = "es" THEN SingleWordFallback(word) ELSE word)
    ELSE IF UsableLemma(r.value, word)
    THEN (IF IsUpperChar(word[1]) THEN capitalize(r.value) ELSE r.value)
    ELSE word

normalize_single_word(word, language, simplemma) ==
    IF simplemma = "missing" THEN word
    ELSE IF lang_map(language) = None THEN word
    ELSE IF Len(word) < 2 \/ isdigit(word) THEN word
    ELSE SingleWordLemma(word, lang_map(language),
                         simplemma_lemmatize(word, lang_map(language), simplemma))

-----------------------------------------------------------------------------
(* Direct calls of the pure functions: Init draws the arguments, the       *)
(* action applies the function.                                            *)

MaxPreChunks == 3

PreChunks ==
    { <<"a">>, <<"B">>, <<"1">>, <<" ">>, <<"\n">>, <<"\t">>, <<".">>, <<",">>, <<"_">> }

TextsOver(chunks, n) ==
    { Flatten(cs) : cs \in UNION { [1..k -> chunks] : k \in 0..n } }

\* every punctuation character between two words, and the text of
\* test_all_punctuation_removed
PunctTexts ==
    { <<"a", PUNCTUATION[i], "b">> : i \in 1..Len(PUNCTUATION) }
    \cup { PUNCTUATION \o <<"t", "e", "s", "t">> \o PUNCTUATION }

PreTexts == TextsOver(PreChunks, MaxPreChunks) \cup PunctTexts

Idle ==
    /\ text = None /\ text_processed = None /\ frequencies = None
    /\ error = "none" /\ trace = <<>>

InitPre ==
    /\ pc = "call"
    /\ args \in [fn : {"preprocess_text"}, text : PreTexts,
                 case_sensitive : BOOLEAN, include_numbers : BOOLEAN,
                 preserve_sentence_boundaries : BOOLEAN]
    /\ ret = None
    /\ Idle

CallPreprocess ==
    /\ pc = "call"
    /\ args.fn = "preprocess_text"
    /\ ret' = preprocess_text(args.text, args.case_sensitive, args.include_numbers,
                              args.preserve_sentence_boundaries)
    /\ pc' = "return"
    /\ UNCHANGED <<args, text, text_processed, frequencies, error, trace>>

NextPre == CallPreprocess

SpecPre == InitPre /\ [][NextPre]_vars

-----------------------------------------------------------------------------
(* Direct calls of generate_word_count_from_text                           *)

MaxCountChunks == 3

\* words as the normalizer leaves them, each followed by a space
CountChunks ==
    { <<"b", " ">>, <<"c", " ">>, <<"a", " ">>, <<"1", " ">>, <<"b", "2", " ">>,
      <<"s", "e", "n", "t", " ">>, <<"S", "E", "N", "T", " ">> }

\* "red car <SENT> blue bike"
RedCarText ==
    <<"r", "e", "d", " ", "c", "a", "r", " ", "<", "S", "E", "N", "T", ">", " ",
      "b", "l", "u", "e", " ", "b", "i", "k", "e">>

\* "red car sent blue bike": the same text with the marker as the
\* normalizer leaves it when case_sensitive is off
RedCarLowerText ==
    <<"r", "e", "d", " ", "c", "a", "r", " ", "s", "e", "n", "t", " ",
      "b", "l", "u", "e", " ", "b", "i", "k", "e">>

CountTexts ==
    TextsOver(CountChunks, MaxCountChunks) \cup {RedCarText, RedCarLowerText}

InitCount ==
    /\ pc = "call"
    /\ args \in [fn : {"generate_word_count_from_text"}, text : CountTexts,
                 language : {"english", "klingon"},
                 include_stopwords : BOOLEAN,
                 ngram : {"unigram", "bigram", "BIGRAM", "trigram"},
                 include_numbers : BOOLEAN]
    /\ ret = None
    /\ Idle

CallCount ==
    /\ pc = "call"
    /\ args.fn = "generate_word_count_from_text"
    /\ ret' = generate_word_count_from_text(args.text, args.language,
                  args.include_stopwords, args.ngram, args.include_numbers)
    /\ pc' = "return"
    /\ UNCHANGED <<args, text, text_processed, frequencies, error, trace>>

NextCount == CallCount

SpecCount == InitCount /\ [][NextCount]_vars

CountReturned == pc = "return" /\ args.fn = "generate_word_count_from_text"

BigramReturned ==
    /\ CountReturned
    /\ ngram_lower_strip(args.ngram) = "bigram"
    /\ ~ret.raised

\* the marker token as preprocess_text leaves it in the text: SENT, or sent
\* when the text was lowercased
MarkerTokens ==
    { FindWords(SENT_MARKER)[1], lower(FindWords(SENT_MARKER)[1]) }

\* the stream the claim speaks of: the tokens after the stopword and the
\* pure-digit filter
ArgSurvivors ==
    SurvivingTokens(args.text,
                    IF args.include_stopwords THEN {} ELSE StopwordList(args.language),
                    args.include_numbers)

(* C2: in bigram mode a key 'a b' is emitted only for tokens a and b that  *)
(* are adjacent in the surviving token stream, neither being the           *)
(* sentence-break marker.                                                  *)
C2_BigramKeysAdjacentNonMarker ==
    BigramReturned =>
        \A key \in Keys(ret.value) :
            \E i \in 1..(Len(ArgSurvivors) - 1) :
                /\ key = ArgSurvivors[i] \o <<" ">> \o ArgSurvivors[i + 1]
                /\ ArgSurvivors[i] \notin MarkerTokens
                /\ ArgSurvivors[i + 1] \notin MarkerTokens

BlueBike == <<"b", "l", "u", "e", " ", "b", "i", "k", "e">>
RedCar   == <<"r", "e", "d", " ", "c", "a", "r">>
CarBlue  == <<"c", "a", "r", " ", "b", "l", "u", "e">>
CarSENT  == <<"c", "a", "r", " ", "S", "E", "N", "T">>
SENTBlue == <<"S", "E", "N", "T", " ", "b", "l", "u", "e">>

-----------------------------------------------------------------------------
(* Direct calls of remove_excluded_text and apply_literal_replacements     *)

MaxExChunks == 3

ExChunks ==
    { <<"a">>, <<"A">>, <<" ", "b">>, <<" ", "c">>, <<"\n">>, <<" ">> }

ExTexts == TextsOver(ExChunks, MaxExChunks)

\* a word, a word in capitals, a phrase, a phrase with a run of spaces, a
\* blank item
ExItems ==
    { <<"a">>, <<"B">>, <<"c">>, <<"a", " ", "b">>, <<"a", " ", " ", "b">>, <<" ">> }

ExItemLists ==
    {<<>>} \cup { <<x>> : x \in ExItems } \cup { <<x, y>> : x, y \in ExItems }

\* replacements: empty, a word, a text with a line break, the escape \n, a
\* run of spaces, and the group reference \1
ExReplacements ==
    { <<>>, <<"d">>, <<"d", "\n", "e">>, <<"\\", "n">>, <<" ", " ">>, <<"\\", "1">> }

ExPairLists ==
    {<<>>}
    \cup { << <<x, r>> >> : x \in ExItems, r \in ExReplacements }
    \cup { << <<<<"a">>, <<"b">>>>, <<<<"b">>, r>> >> : r \in ExReplacements }

InitExclude ==
    /\ pc = "call"
    /\ \/ args \in [fn : {"remove_excluded_text"}, text : ExTexts,
                    items : ExItemLists, case_sensitive : BOOLEAN]
       \/ args \in [fn : {"apply_literal_replacements"}, text : ExTexts,
                    items : ExPairLists, case_sensitive : BOOLEAN]
    /\ ret = None
    /\ Idle

CallRemoveExcluded ==
    /\ pc = "call"
    /\ args.fn = "remove_excluded_text"
    /\ ret' = [raised |-> FALSE,
               value  |-> remove_excluded_text(args.text, args.items, args.case_sensitive)]
    /\ pc' = "return"
    /\ UNCHANGED <<args, text, text_processed, frequencies, error, trace>>

CallLiteralReplacements ==
    /\ pc = "call"
    /\ args.fn = "apply_literal_replacements"
    /\ ret' = apply_literal_replacements(args.text, args.items, args.case_sensitive)
    /\ pc' = "return"
    /\ UNCHANGED <<args, text, text_processed, frequencies, error, trace>>

NextExclude == CallRemoveExcluded \/ CallLiteralReplacements

SpecExclude == InitExclude /\ [][NextExclude]_vars

RemoveReturned  == pc = "return" /\ args.fn = "remove_excluded_text"
ReplaceReturned == pc = "return" /\ args.fn = "apply_literal_replacements" /\ ~ret.raised

NonBlank(item) == strip(item) # <<>>

\* the text holds a match of the item under the function's matching rule
ItemMatches(t, item, case_sensitive) ==
    re_search(ItemPattern(normalize_spaces(strip(item))), t, ~case_sensitive)

(* C8 as stated: the text returned by remove_excluded_text holds no match  *)
(* of any listed phrase, whatever the order of the list.                   *)
C8_NoMatchRemains ==
    RemoveReturned =>
        \A i \in 1..Len(args.items) :
            NonBlank(args.items[i])
                => ~ItemMatches(ret.value, args.items[i], args.case_sensitive)

WordOnly(item) == item # <<>> /\ \A i \in 1..Len(item) : IsWord(item[i])

(* C8 amended: every phrase is removed in one pass, in list order; when    *)
(* every listed phrase is a single token of word characters the returned   *)
(* text holds no whole-word match of any of them, whatever their order.    *)
C8_NoWholeWordRemains ==
    (RemoveReturned /\ \A i \in 1..Len(args.items) : WordOnly(args.items[i])) =>
        \A i \in 1..Len(args.items) :
            ~ItemMatches(ret.value, args.items[i], args.case_sensitive)

\* two different words were listed and both were found, one of them only
\* in another letter case
C8_Witness ==
    /\ RemoveReturned
    /\ Len(args.items) = 2
    /\ args.items[1] # args.items[2]
    /\ \A i \in 1..2 : WordOnly(args.items[i])
                        /\ ItemMatches(args.text, args.items[i], args.case_sensitive)
    /\ ~ItemMatches(args.text, args.items[1], TRUE)
    /\ ret.value # args.text

CountChar(t, c) == Cardinality({ i \in 1..Len(t) : t[i] = c })

(* C9: remove_excluded_text and apply_literal_replacements keep the line   *)
(* structure: the output has as many line breaks as the input, output line *)
(* i is the function's output for input line i alone, and an empty list    *)
(* returns the text unchanged.                                             *)
C9_LineStructureKept ==
    /\ RemoveReturned =>
          /\ CountChar(ret.value, "\n") = CountChar(args.text, "\n")
          /\ \A i \in 1..Len(split(args.text, "\n")) :
                split(ret.value, "\n")[i]
                    = remove_excluded_text(split(args.text, "\n")[i], args.items,
                                           args.case_sensitive)
          /\ args.items = <<>> => ret.value = args.text
    /\ ReplaceReturned =>
          /\ CountChar(ret.value, "\n") = CountChar(args.text, "\n")
          /\ \A i \in 1..Len(split(args.text, "\n")) :
                split(ret.value, "\n")[i]
                    = apply_literal_replacements(split(args.text, "\n")[i], args.items,
                                                 args.case_sensitive).value
          /\ args.items = <<>> => ret.value = args.text

\* a text of two lines, a match replaced by a text that holds a line break
C9_Witness ==
    /\ ReplaceReturned
    /\ CountChar(args.text, "\n") = 1
    /\ Len(args.items) = 1
    /\ NonBlank(args.items[1][1])
    /\ ItemMatches(args.text, args.items[1][1], args.case_sensitive)
    /\ CountChar(ExpandTemplate(args.items[1][2]).value, "\n") = 1
    /\ ret.value # args.text

-----------------------------------------------------------------------------
(* C10: for every input and every combination of case_sensitive,           *)
(* include_numbers and preserve_sentence_boundaries, the output of         *)
(* preprocess_text has no two consecutive spaces, no leading or trailing   *)
(* whitespace and none of the PUNCTUATION characters.                      *)

IsPunct(c) == \E i \in 1..Len(PUNCTUATION) : PUNCTUATION[i] = c

PreReturned == pc = "return" /\ args.fn = "preprocess_text"

C10_NormalizerOutputClean ==
    PreReturned =>
        /\ \A i \in 1..(Len(ret) - 1) : ~(ret[i] = " " /\ ret[i + 1] = " ")
        /\ ret # <<>> => ~IsSpace(ret[1]) /\ ~IsSpace(ret[Len(ret)])
        /\ \A i \in 1..Len(ret) : ~IsPunct(ret[i])

\* a call in sentence mode whose input held a delimiter, other punctuation,
\* a run of whitespace and leading whitespace, and returned words
C10_Witness ==
    /\ PreReturned
    /\ args.preserve_sentence_boundaries
    /\ \E i \in 1..Len(args.text) : args.text[i] = "."
    /\ \E i \in 1..Len(args.text) : args.text[i] = ","
    /\ Len(args.text) >= 2 /\ IsSpace(args.text[1])
    /\ Len(ret) >= 4

-----------------------------------------------------------------------------
(* process_text_to_frequencies                                             *)
(* One action per stage call of the function body; pc is the position in   *)
(* the body, trace the stage calls made so far with what each was handed   *)
(* and what it returned.                                                   *)

Pipeline == "process_text_to_frequencies"
Service == "generate_wordcloud"

\* the output recorded for a stage call that raised
Raised == "raised"

Entry(stage, input, output) ==
    [stage |-> stage, input |-> input, output |-> output, raised |-> FALSE]

\* the entry of a stage call that raised
RaisedEntry(stage, input) ==
    [stage |-> stage, input |-> input, output |-> Raised, raised |-> TRUE]

\* truth value of an Optional[str]
Truthy(s) == s # NoText /\ s # <<>>

\* the classes of the first except clause (with their subclasses)
ExpectedErrors == {"ValidationError", "FileHandlerError", "JSONParseError"}

\* str(e) of the exception exc raised at origin, and the prefix of the
\* second except clause, as parts of a message
Message(exc, origin) == <<exc, origin>>
UnexpectedPrefix == <<"Unexpected error: ">>

WrapMut(exc, origin) ==
    [type |-> "WordCloudServiceError", cause |-> exc, origin |-> origin,
     unexpected |-> exc \notin ExpectedErrors,
     message |-> IF exc \in ExpectedErrors THEN <<Message(exc, origin)>>
                 ELSE <<UnexpectedPrefix>>]

\* the except clauses: WordCloudServiceError(str(e)) for the exceptions of
\* the first clause, WordCloudServiceError(f'Unexpected error: {e}') for
\* every other one
Wrap(exc, origin) ==
    [type |-> "WordCloudServiceError", cause |-> exc, origin |-> origin,
     unexpected |-> exc \notin ExpectedErrors,
     message |-> IF exc \in ExpectedErrors THEN <<Message(exc, origin)>>
                 ELSE <<UnexpectedPrefix, Message(exc, origin)>>]

\* `replace_with if replace_with is not None else ""`
replacement_text(a) == IF a.replace_with # NoText THEN a.replace_with ELSE <<>>

\* the items of the literal branch of _apply_replacements
LiteralItems(a) ==
    IF a.replace_mode = "list" THEN StripNonEmpty(split(a.replace_search, ","))
    ELSE <<strip(a.replace_search)>>

LiteralConfigured(a) ==
    /\ Truthy(a.replace_search)
    /\ a.replace_mode \in {"single", "list"}
    /\ LiteralItems(a) # <<>>

\* what a stage call contributes: its result and its entry in the trace
StepOf(stage, input, r) ==
    [raised |-> r.raised, value |-> r.value, origin |-> stage,
     steps |-> <<IF r.raised THEN RaisedEntry(stage, input)
                 ELSE Entry(stage, input, r.value)>>]

NoStep(target_text) ==
    [raised |-> FALSE, value |-> target_text, origin |-> "", steps |-> <<>>]

\* [(item, replacement_text) for item in items]
LiteralPairs(items, replacement) ==
    [i \in 1..Len(items) |-> <<items[i], replacement>>]

LiteralStep(target_text, a) ==
    IF LiteralConfigured(a)
    THEN StepOf("literal", target_text,
                apply_literal_replacements(target_text,
                    LiteralPairs(LiteralItems(a), replacement_text(a)),
                    a.replace_case_sensitive))
    ELSE NoStep(target_text)

\* f"{replace_search}|{replacement_text}", or replace_search alone
gui_rule(a) ==
    IF replacement_text(a) = <<>> THEN a.replace_search
    ELSE a.replace_search \o <<"|">> \o replacement_text(a)

GuiRules(a) ==
    IF Truthy(a.replace_search) /\ a.replace_mode = "regex"
    THEN parse_regex_rule_argument(gui_rule(a))
    ELSE Ok(<<>>)

CliRules(a) ==
    IF Truthy(a.regex_rule) THEN parse_regex_rule_argument(a.regex_rule) ELSE Ok(<<>>)

\* a step that raised exc after the stage calls of lit
RaisedAfter(lit, r) ==
    [raised |-> TRUE, value |-> r.value, origin |-> r.origin, steps |-> lit.steps]

\* the regex step after the literal step lit
RegexAfter(lit, r) ==
    [raised |-> r.raised, value |-> r.value, origin |-> "regex_apply",
     steps |-> lit.steps
               \o <<IF r.raised THEN RaisedEntry("regex", lit.value)
                     ELSE Entry("regex", lit.value, r.value)>>]

\* the rule building and the regex branch of _apply_replacements
RegexStep(lit, gui, cli, a) ==
    IF lit.raised THEN lit
    ELSE IF gui.raised THEN RaisedAfter(lit, gui)
    ELSE IF cli.raised THEN RaisedAfter(lit, cli)
    ELSE IF gui.value \o cli.value = <<>> THEN lit
    ELSE RegexAfter(lit, apply_regex_transformations(lit.value, gui.value \o cli.value,
                                                     a.regex_case_sensitive))

\* the closure _apply_replacements: the text it returns or the exception
\* it raises, and the stage calls it made
_apply_replacements(target_text, a) ==
    RegexStep(LiteralStep(target_text, a), GuiRules(a), CliRules(a), a)

StageSelectedMut(replace_stage, stage) == TRUE

StageSelectedBothMut(replace_stage, stage) == replace_stage \in {stage, "both"}

\* `if replace_stage == "original"`, `if replace_stage == "processed"`
StageSelected(replace_stage, stage) == replace_stage = stage

LemmatizeEnabledMut(lemmatize) == TRUE

\* `if config.lemmatize`
LemmatizeEnabled(lemmatize) == lemmatize

\* is_json_file, read_json_file, read_text_file
ReadInput ==
    /\ pc = "start"
    /\ args.fn \in {Pipeline, Service}
    /\ IF args.input.kind = "json"
       THEN /\ frequencies' = args.input.content
            /\ pc' = "done"
            /\ UNCHANGED <<text, error>>
       ELSE IF args.input.kind = "bad_json"
       THEN /\ error' = Wrap("JSONParseError", "read")
            /\ pc' = "failed"
            /\ UNCHANGED <<text, frequencies>>
       ELSE IF args.input.kind = "unreadable"
       THEN /\ error' = Wrap("FileHandlerError", "read")
            /\ pc' = "failed"
            /\ UNCHANGED <<text, frequencies>>
       ELSE /\ text' = args.input.content
            /\ pc' = "exclude"
            /\ UNCHANGED <<frequencies, error>>
    /\ trace' = IF args.input.kind = "text"
                THEN <<Entry("read", NoText, args.input.content)>>
                ELSE trace
    /\ UNCHANGED <<args, text_processed, ret>>

\* `if exclude_words:` ... remove_excluded_text
Exclude ==
    /\ pc = "exclude"
    /\ LET items == IF Truthy(args.exclude_words)
                    THEN parse_exclude_words_argument(args.exclude_words)
                    ELSE Ok(<<>>)
       IN  IF items.raised
           THEN /\ error' = Wrap(items.value, "exclude_words")
                /\ pc' = "failed"
                /\ UNCHANGED <<text, trace>>
           ELSE IF items.value = <<>>
           THEN /\ pc' = "replace_original"
                /\ UNCHANGED <<text, trace, error>>
           ELSE /\ text' = remove_excluded_text(text, items.value,
                                                args.exclude_case_sensitive)
                /\ trace' = Append(trace, Entry("exclude", text, text'))
                /\ pc' = "replace_original"
                /\ UNCHANGED error
    /\ UNCHANGED <<args, text_processed, frequencies, ret>>

\* `if replace_stage == "original": text = _apply_replacements(text)`
ReplaceOriginal ==
    /\ pc = "replace_original"
    /\ IF StageSelected(args.replace_stage, "original")
       THEN LET r == _apply_replacements(text, args)
            IN  /\ trace' = trace \o r.steps
                /\ IF r.raised
                   THEN /\ error' = Wrap(r.value, r.origin)
                        /\ pc' = "failed"
                        /\ UNCHANGED text
                   ELSE /\ text' = r.value
                        /\ pc' = "preprocess"
                        /\ UNCHANGED error
       ELSE /\ pc' = "preprocess"
            /\ UNCHANGED <<text, trace, error>>
    /\ UNCHANGED <<args, text_processed, frequencies, ret>>

\* preserve_boundaries and the call of preprocess_text
Preprocess ==
    /\ pc = "preprocess"
    /\ text_processed' = preprocess_text(text, args.case_sensitive, args.include_numbers,
                                         ngram_lower(args.ngram) = "bigram")
    /\ trace' = Append(trace, Entry("normalize", text, text_processed'))
    /\ pc' = "lemmatize"
    /\ UNCHANGED <<args, text, frequencies, error, ret>>

\* `if config.lemmatize:` ... normalize_plurals_with_lemmatization
Lemmatize ==
    /\ pc = "lemmatize"
    /\ IF LemmatizeEnabled(args.lemmatize)
       THEN /\ text_processed' = normalize_plurals_with_lemmatization(
                                     text_processed, args.language, args.simplemma)
            /\ trace' = Append(trace, Entry("lemmatize", text_processed, text_processed'))
       ELSE UNCHANGED <<text_processed, trace>>
    /\ pc' = "replace_processed"
    /\ UNCHANGED <<args, text, frequencies, error, ret>>

\* `if replace_stage == "processed": text_processed = _apply_replacements(...)`
ReplaceProcessed ==
    /\ pc = "replace_processed"
    /\ IF StageSelected(args.replace_stage, "processed")
       THEN LET r == _apply_replacements(text_processed, args)
            IN  /\ trace' = trace \o r.steps
                /\ IF r.raised
                   THEN /\ error' = Wrap(r.value, r.origin)
                        /\ pc' = "failed"
                        /\ UNCHANGED text_processed
                   ELSE /\ text_processed' = r.value
                        /\ pc' = "count"
                        /\ UNCHANGED error
       ELSE /\ pc' = "count"
            /\ UNCHANGED <<text_processed, trace, error>>
    /\ UNCHANGED <<args, text, frequencies, ret>>

\* generate_word_count_from_text and `return frequencies`
Count ==
    /\ pc = "count"
    /\ LET r == generate_word_count_from_text(text_processed, args.language,
                    args.include_stopwords, args.ngram, args.include_numbers)
       IN  IF r.raised
           THEN /\ error' = Wrap(r.value, "count")
                /\ pc' = "failed"
                /\ trace' = Append(trace, RaisedEntry("count", text_processed))
                /\ UNCHANGED frequencies
           ELSE /\ frequencies' = r.value
                /\ pc' = "done"
                /\ trace' = Append(trace, Entry("count", text_processed, r.value))
                /\ UNCHANGED error
    /\ UNCHANGED <<args, text, text_processed, ret>>

Next ==
    \/ ReadInput
    \/ Exclude
    \/ ReplaceOriginal
    \/ Preprocess
    \/ Lemmatize
    \/ ReplaceProcessed
    \/ Count

-----------------------------------------------------------------------------
(* The calls of process_text_to_frequencies the model makes                *)

MaxPipeChunks == 3

PipeChunks ==
    { <<"b", " ">>, <<"1", ".", " ">>, <<".", " ">>,
      <<"c", "a", "t", "s", " ">>, <<"A", " ">>, <<"1", " ">> }

PipeTexts == TextsOver(PipeChunks, MaxPipeChunks)

\* a call with every optional argument at its default
Defaults ==
    [fn |-> Pipeline, input |-> [kind |-> "text", content |-> <<>>],
     language |-> "english", case_sensitive |-> FALSE, include_numbers |-> FALSE,
     include_stopwords |-> FALSE, lemmatize |-> FALSE, ngram |-> "unigram",
     exclude_words |-> NoText, exclude_case_sensitive |-> FALSE,
     regex_rule |-> NoText, regex_case_sensitive |-> FALSE,
     replace_search |-> NoText, replace_with |-> NoText, replace_mode |-> None,
     replace_case_sensitive |-> FALSE, replace_stage |-> "original",
     simplemma |-> "available"]

TextInput(t) == [kind |-> "text", content |-> t]

\* every text under every combination of the configuration flags
FlagCalls ==
    { [Defaults EXCEPT !.input = TextInput(t), !.case_sensitive = f[1],
                       !.include_numbers = f[2], !.include_stopwords = f[3],
                       !.lemmatize = f[4], !.ngram = n] :
        t \in PipeTexts, f \in BOOLEAN \X BOOLEAN \X BOOLEAN \X BOOLEAN,
        n \in {"unigram", "bigram"} }

RuleTexts ==
    { <<"c", "a", "t", "s", " ", "b", ".", " ", "c", " ", "A">>,
      <<"b", " ", "c", "\n", "B", " ", "e">> }

ExcludeArguments ==
    { NoText, <<>>, <<"b">>, <<"e", "f">>, <<"u", "f">>, <<"A", ",", " ", "c">> }

\* <<replace_mode, replace_search, replace_with>>
ReplaceArguments ==
    { <<None, NoText, NoText>>,
      <<"single", <<"c">>, <<"d">>>>,
      <<"list", <<"b", ",", " ", "c">>, NoText>>,
      <<"list", <<" ", ",", " ">>, <<"d">>>>,
      <<"single", <<"c">>, <<"\\", "1">>>>,
      <<"regex", <<"c">>, <<"d">>>>,
      <<"regex", <<"(", "c", ")">>, <<"e">>>>,
      <<"regex", <<"(">>, NoText>> }

RuleArguments ==
    { NoText, <<"d", "|", "e">>, <<"(">>, <<"r", "f">>, <<"b", "f">>, <<"u", "f">>,
      <<"b", "|", "\\", "1">> }

\* two texts under every combination of exclusion and replacement arguments
RuleCalls ==
    { [Defaults EXCEPT !.input = TextInput(t), !.lemmatize = f[1],
                       !.exclude_case_sensitive = f[2],
                       !.replace_case_sensitive = f[2],
                       !.regex_case_sensitive = f[2], !.ngram = n,
                       !.exclude_words = x, !.replace_mode = r[1],
                       !.replace_search = r[2], !.replace_with = r[3],
                       !.regex_rule = g, !.replace_stage = st] :
        t \in RuleTexts, f \in BOOLEAN \X BOOLEAN, n \in {"unigram", "bigram"},
        x \in ExcludeArguments, r \in ReplaceArguments, g \in RuleArguments,
        st \in {"original", "processed", "both"} }

EnvInputs ==
    { TextInput(<<"c", "a", "s", "a", "s", " ", "l", "u", "c", "e", "s", ".", " ", "C", "a", "t", "s", " ", "b">>),
      TextInput(<<"A", " ", "c", "a", "t", "s", ".", " ", "b", " ", "1">>),
      [kind |-> "json", content |-> <<[key |-> <<"b">>, count |-> 2]>>],
      [kind |-> "bad_json", content |-> <<>>],
      [kind |-> "unreadable", content |-> <<>>] }

\* every kind of input under every language and state of the lemmatizer
EnvCalls ==
    { [Defaults EXCEPT !.input = i, !.language = l, !.simplemma = sm,
                       !.include_stopwords = f[1], !.lemmatize = f[2],
                       !.case_sensitive = f[3], !.ngram = n] :
        i \in EnvInputs, l \in {"english", "spanish", "german", "klingon"},
        sm \in {"available", "missing", "failing"},
        f \in BOOLEAN \X BOOLEAN \X BOOLEAN,
        n \in {"unigram", "bigram", "BIGRAM", "trigram"} }

Init ==
    /\ pc = "start"
    /\ args \in FlagCalls \cup RuleCalls \cup EnvCalls
    /\ ret = None
    /\ Idle

Spec == Init /\ [][Next]_vars

-----------------------------------------------------------------------------
(* Properties of process_text_to_frequencies                               *)

PipeCall == args.fn = Pipeline
TextCall == PipeCall /\ args.input.kind = "text"

\* the positions of the calls of a stage in the trace
StageIndexes(stage) == { i \in 1..Len(trace) : trace[i].stage = stage }

\* what the one call of a stage was handed, and what it returned
StageInput(stage) == trace[CHOOSE i \in StageIndexes(stage) : TRUE].input
StageOutput(stage) == trace[CHOOSE i \in StageIndexes(stage) : TRUE].output

\* the pieces of a text between its sentence delimiters
Sentences(t) ==
    split([i \in 1..Len(t) |->
              IF \E d \in 1..Len(SENT_DELIMITERS) : SENT_DELIMITERS[d] = t[i]
              THEN "\n" ELSE t[i]], "\n")

\* the text of one sentence as the stages after the normalizer's input
\* leave it for the counter
SentenceProcessed(s, a) ==
    LET n == preprocess_text(s, a.case_sensitive, a.include_numbers, FALSE)
        l == IF a.lemmatize
             THEN normalize_plurals_with_lemmatization(n, a.language, a.simplemma)
             ELSE n
    IN  IF a.replace_stage = "processed" THEN _apply_replacements(l, a) ELSE NoStep(l)

\* the bigram keys one sentence gives on its own
SentenceCounted(r, a) ==
    IF r.raised THEN Raise("", "")
    ELSE generate_word_count_from_text(r.value, a.language, a.include_stopwords,
                                       a.ngram, a.include_numbers)

SentenceKeys(c) == IF c.raised THEN {} ELSE Keys(c.value)

\* the pairs of words that stand next to each other inside one sentence
SameSentenceKeys(t, a) ==
    UNION { SentenceKeys(SentenceCounted(SentenceProcessed(Sentences(t)[i], a), a)) :
              i \in 1..Len(Sentences(t)) }

\* a key holds the marker token, in any letter case
HasMarker(key) ==
    \E i \in 1..Len(split(key, " ")) : lower(split(key, " ")[i]) = SENT_TOKEN

\* C1: in bigram mode no key of the map the pipeline returns holds the
\* sentence-break marker token in any letter case, and every key pairs two
\* words of one sentence of the text handed to the normalizer, whatever the
\* text and the flags.
C1_NoMarkerNoCrossSentencePair ==
    (TextCall /\ pc = "done" /\ ngram_lower_strip(args.ngram) = "bigram")
        => \A key \in Keys(frequencies) :
               /\ ~HasMarker(key)
               /\ key \in SameSentenceKeys(StageInput("normalize"), args)

\* C4: with stopwords excluded and a language that has no stopword list, the
\* counter returns the unfiltered counts and the call completes normally.
C4_UnsupportedLanguageCompletes ==
    (/\ TextCall
     /\ ~args.include_stopwords
     /\ args.language \notin SupportedStopwordLanguages
     /\ ngram_lower_strip(args.ngram) \in {"unigram", "bigram"}
     /\ StageIndexes("count") # {})
        => /\ pc = "done"
           /\ frequencies = generate_word_count_from_text(text_processed, args.language,
                                TRUE, args.ngram, args.include_numbers).value

TransformationStages == {"exclude", "literal", "normalize", "lemmatize"}

\* the call ended with the error of a rule whose pattern does not compile
RuleCompileError == PipeCall /\ pc = "failed" /\ error.origin = "regex_compile"

\* C5: when a configured regex rule does not compile, the rule error is
\* raised before any transformation stage has run on the text.
C5_RuleErrorBeforeAnyTransformation ==
    RuleCompileError
        => \A i \in 1..Len(trace) : trace[i].stage \notin TransformationStages

Rank(stage) ==
    CASE stage = "read"      -> 1
      [] stage = "exclude"   -> 2
      [] stage = "literal"   -> 3
      [] stage = "regex"     -> 4
      [] stage = "normalize" -> 5
      [] stage = "lemmatize" -> 6
      [] stage = "count"     -> 7

\* C6: with replace_stage 'original' the stages run in the order read,
\* exclusion, literal replacement, regex replacement, normalization,
\* lemmatization (only if enabled), counting; each runs at most once and is
\* handed the output of the stage that ran before it; the map returned is
\* the counter's output.
C6_StagesInOrder ==
    (TextCall /\ args.replace_stage = "original")
        => /\ \A i \in 2..Len(trace) :
                  /\ Rank(trace[i - 1].stage) < Rank(trace[i].stage)
                  /\ trace[i].input = trace[i - 1].output
           /\ \A i \in 1..Len(trace) : trace[i].stage = "lemmatize" => args.lemmatize
           /\ pc = "done"
                  => /\ trace[1].stage = "read"
                     /\ StageIndexes("normalize") # {}
                     /\ args.lemmatize => StageIndexes("lemmatize") # {}
                     /\ trace[Len(trace)].stage = "count"
                     /\ frequencies = trace[Len(trace)].output

\* every stage ran, and each one changed the text it was handed
C6_Witness ==
    /\ TextCall /\ args.replace_stage = "original" /\ pc = "done"
    /\ Len(trace) = 7
    /\ \A i \in 2..6 : trace[i].output # trace[i].input
    /\ frequencies # <<>>

ReplacementStages == {"literal", "regex"}

ReplacementIndexes == { i \in 1..Len(trace) : trace[i].stage \in ReplacementStages }

\* the first replacement call of the invocation
FirstReplacement == CHOOSE i \in ReplacementIndexes : \A j \in ReplacementIndexes : i <= j

\* the rules of the call, once they are known to parse
RegexConfigured(a) == GuiRules(a).value \o CliRules(a).value # <<>>

\* exclusion comes first, on the raw text
ExclusionFirst ==
    \A i \in StageIndexes("exclude") : i = 2 /\ trace[i].input = trace[1].output

\* the configured replacements are applied once, and nothing else is
ReplacementsOnce ==
    /\ Cardinality(StageIndexes("literal")) <= 1
    /\ Cardinality(StageIndexes("regex")) <= 1
    /\ (pc = "done" /\ args.replace_stage \in {"original", "processed"})
           => /\ LiteralConfigured(args) <=> StageIndexes("literal") # {}
              /\ RegexConfigured(args) <=> StageIndexes("regex") # {}

\* with 'original' the replacements are handed the raw text after exclusion
OriginalOnRawText ==
    (args.replace_stage = "original" /\ ReplacementIndexes # {})
        => /\ trace[FirstReplacement - 1].stage \in {"read", "exclude"}
           /\ trace[FirstReplacement].input = trace[FirstReplacement - 1].output
           /\ StageIndexes("normalize") = {}
              \/ FirstReplacement < CHOOSE i \in StageIndexes("normalize") : TRUE

\* C7 as stated: with 'original' the replacement rules are applied to the
\* raw text after exclusion and before normalization, with 'processed' to
\* the output of normalization; in both cases once, and exclusion runs
\* first on the raw text.
C7_ProcessedOnNormalizerOutput ==
    TextCall
        => /\ ExclusionFirst
           /\ ReplacementsOnce
           /\ OriginalOnRawText
           /\ (args.replace_stage = "processed" /\ ReplacementIndexes # {})
                  => /\ StageIndexes("normalize") # {}
                     /\ trace[FirstReplacement].input = StageOutput("normalize")

\* C7: with 'original' the replacement rules are applied to the raw text
\* after exclusion and before normalization; with 'processed' they are
\* applied to the text that goes to the counter, the output of
\* normalization or, when lemmatization is enabled, the output of
\* lemmatization; in both cases once, and exclusion runs first on the raw
\* text.
C7_ProcessedOnCounterText ==
    TextCall
        => /\ ExclusionFirst
           /\ ReplacementsOnce
           /\ OriginalOnRawText
           /\ (args.replace_stage = "processed" /\ ReplacementIndexes # {})
                  => /\ trace[FirstReplacement - 1].stage
                            = (IF args.lemmatize THEN "lemmatize" ELSE "normalize")
                     /\ trace[FirstReplacement].input = trace[FirstReplacement - 1].output

\* a 'processed' call whose lemmatizer changed the normalized text before a
\* literal replacement changed it again
C7_Witness ==
    /\ TextCall /\ args.replace_stage = "processed" /\ pc = "done"
    /\ args.lemmatize
    /\ StageIndexes("lemmatize") # {}
    /\ StageOutput("lemmatize") # StageInput("lemmatize")
    /\ StageIndexes("literal") # {}
    /\ StageOutput("literal") # StageInput("literal")

-----------------------------------------------------------------------------
(* C11: sentence-break markers of preprocess_text                          *)

\* the space-separated tokens of a normalized text
Words(t) == StripNonEmpty(split(t, " "))

IsMarkerToken(tok) == lower(tok) = SENT_TOKEN

RECURSIVE MarkerSegments(_)
\* the runs of tokens between the marker tokens
MarkerSegments(tokens) ==
    IF \A i \in 1..Len(tokens) : ~IsMarkerToken(tokens[i]) THEN <<tokens>>
    ELSE LET j == CHOOSE i \in 1..Len(tokens) :
                      /\ IsMarkerToken(tokens[i])
                      /\ \A h \in 1..(i - 1) : ~IsMarkerToken(tokens[h])
         IN  <<SubSeq(tokens, 1, j - 1)>>
             \o MarkerSegments(SubSeq(tokens, j + 1, Len(tokens)))

\* the text holds the letters of the marker, in any letter case
HoldsMarkerWord(t) ==
    \E i \in 1..(Len(t) - 3) : lower(SubSeq(t, i, i + 3)) = SENT_TOKEN

\* C11: in sentence mode every sentence delimiter (. ! ? ; line break) of
\* the input yields a marker token at its position in the output, so that
\* the tokens between the markers are the words of the input's sentences,
\* whatever include_numbers and case_sensitive are; without sentence mode
\* the output holds no marker token unless the input held the word.
C11_EveryDelimiterYieldsMarker ==
    (PreReturned /\ ~HoldsMarkerWord(args.text))
        => IF args.preserve_sentence_boundaries
           THEN MarkerSegments(Words(ret))
                    = [k \in 1..Len(Sentences(args.text)) |->
                          Words(preprocess_text(Sentences(args.text)[k],
                                    args.case_sensitive, args.include_numbers, FALSE))]
           ELSE \A i \in 1..Len(Words(ret)) : ~IsMarkerToken(Words(ret)[i])

-----------------------------------------------------------------------------
(* Direct calls of apply_regex_transformations and of the two argument     *)
(* parsers                                                                 *)

MaxRxChunks == 2
MaxRules == 2

RxChunks == { <<"a">>, <<"B">>, <<"1">>, <<"\n">> }

PageText ==
    <<"P", "a", "g", "e", " ", "1", "\n", "B", "o", "d", "y", " ", "t", "e", "x", "t",
      "\n", "P", "a", "g", "e", " ", "2">>

PagePattern == <<"^", "P", "a", "g", "e", " ", "\\", "d", "+">>

RxTexts == TextsOver(RxChunks, MaxRxChunks) \cup {PageText, <<"a", "1", " ", "b", "2", "2">>}

\* rules as a caller builds them with RegexRule(...): replacing, deleting,
\* anchored, swapping two groups, naming a group the pattern does not
\* have, a pattern that does not compile and an empty pattern
RxRules ==
    { RegexRule(<<"a">>, <<"b">>),
      RegexRule(<<"b">>, <<"c">>),
      RegexRule(<<"b", "+">>, NoText),
      RegexRule(PagePattern, NoText),
      RegexRule(<<"(", "\\", "w", ")", "(", "\\", "d", "+", ")">>, <<"\\", "2", "\\", "1">>),
      RegexRule(<<"(", "a", ")">>, <<"\\", "2">>),
      RegexRule(<<"(", "\\", "d", "+", ")">>, <<"\\", "1", "0">>),
      RegexRule(<<"[", "i", "n", "v", "a", "l", "i", "d">>, NoText),
      RegexRule(<<>>, <<"x">>) }

RxRuleLists == UNION { [1..k -> RxRules] : k \in 0..MaxRules }

\* specs: absent, empty, blank, inline phrases, inline rules that compile
\* and that do not, the files, a file name between blanks and the name of
\* no file
SpecArguments ==
    { NoText, <<>>, <<" ", "\n">>, <<"b", ",", " ", "c", ",", ",", "d", " ", "e">>,
      <<"a", "|", "b">>, <<"a", "|">>, <<"|", "a">>, <<"(">>, <<"[", "b", "|", "c">>,
      <<"e", "f">>, <<"r", "f">>, <<"b", "f">>, <<"c", "f">>, <<"u", "f">>,
      <<" ", "e", "f", " ">>, <<"x", "f">> }

InitRules ==
    /\ pc = "call"
    /\ \/ args \in [fn : {"apply_regex_transformations"}, text : RxTexts,
                    rules : RxRuleLists, case_sensitive : BOOLEAN]
       \/ args \in [fn : {"parse_exclude_words_argument", "parse_regex_rule_argument"},
                    arg : SpecArguments]
    /\ ret = None
    /\ Idle

CallApplyRegex ==
    /\ pc = "call"
    /\ args.fn = "apply_regex_transformations"
    /\ ret' = apply_regex_transformations(args.text, args.rules, args.case_sensitive)
    /\ pc' = "return"
    /\ UNCHANGED <<args, text, text_processed, frequencies, error, trace>>

CallParseExclude ==
    /\ pc = "call"
    /\ args.fn = "parse_exclude_words_argument"
    /\ ret' = parse_exclude_words_argument(args.arg)
    /\ pc' = "return"
    /\ UNCHANGED <<args, text, text_processed, frequencies, error, trace>>

CallParseRegexRule ==
    /\ pc = "call"
    /\ args.fn = "parse_regex_rule_argument"
    /\ ret' = parse_regex_rule_argument(args.arg)
    /\ pc' = "return"
    /\ UNCHANGED <<args, text, text_processed, frequencies, error, trace>>

NextRules == CallApplyRegex \/ CallParseExclude \/ CallParseRegexRule

SpecRules == InitRules /\ [][NextRules]_vars

ApplyReturned == pc = "return" /\ args.fn = "apply_regex_transformations"

\* rules[1..n-1] and the last rule
Front(rules) == SubSeq(rules, 1, Len(rules) - 1)
Last(rules) == rules[Len(rules)]

RECURSIVE FoldRules(_, _, _)
\* the left fold of the single-rule call over the list, built from the end
\* of the list: the rules before the last one first, then the last one on
\* what they return; the first error ends the fold
FoldRules(t, rules, case_sensitive) ==
    IF rules = <<>> THEN Ok(t)
    ELSE IF FoldRules(t, Front(rules), case_sensitive).raised
         THEN FoldRules(t, Front(rules), case_sensitive)
    ELSE apply_regex_transformations(FoldRules(t, Front(rules), case_sensitive).value,
                                     <<Last(rules)>>, case_sensitive)

RECURSIVE Reverse(_)
Reverse(s) == IF s = <<>> THEN <<>> ELSE Reverse(Tail(s)) \o <<Head(s)>>

\* the pattern of the rule matches somewhere in t with at least one character
MatchesIn(rule, t, case_sensitive) ==
    \E i \in 1..Len(t) :
        /\ RuleMatchAt(CompileRule(rule.pattern), 1, t, i, ~case_sensitive,
                       NoCaps(NumGroups(rule.pattern))).ok
        /\ RuleMatchAt(CompileRule(rule.pattern), 1, t, i, ~case_sensitive,
                       NoCaps(NumGroups(rule.pattern))).e > i

\* a list of one rule that has a pattern, which compiles, and no replacement
DeleteCall ==
    /\ ApplyReturned
    /\ Len(args.rules) = 1
    /\ args.rules[1].replacement = NoText
    /\ args.rules[1].pattern # <<>>
    /\ re_compiles(args.rules[1].pattern)

(* C12: apply_regex_transformations applies the rules in list order, each  *)
(* rule on the output of the one before it: what it returns (the text, or  *)
(* the error of the first rule that fails) is the left fold of the         *)
(* single-rule call over the list.  A rule without replacement deletes its *)
(* matches: it returns what the same pattern with an empty replacement     *)
(* returns, never a longer text, and a shorter one when the pattern        *)
(* matches.  An empty list returns the text unchanged.                     *)
C12_RulesFoldInOrder ==
    /\ ApplyReturned =>
          ret = FoldRules(args.text, args.rules, args.case_sensitive)
    /\ DeleteCall =>
          /\ ret = rule_sub(args.rules[1].pattern, <<>>, args.text, ~args.case_sensitive)
          /\ Len(ret.value) <= Len(args.text)
          /\ MatchesIn(args.rules[1], args.text, args.case_sensitive)
                => Len(ret.value) < Len(args.text)
    /\ (ApplyReturned /\ args.rules = <<>>) => ret = Ok(args.text)

\* two rules that both change the text, in an order that matters
C12_Witness ==
    /\ ApplyReturned
    /\ Len(args.rules) = 2
    /\ ~ret.raised
    /\ ~apply_regex_transformations(args.text, <<args.rules[1]>>, args.case_sensitive).raised
    /\ apply_regex_transformations(args.text, <<args.rules[1]>>, args.case_sensitive).value
           # args.text
    /\ ~apply_regex_transformations(args.text, Reverse(args.rules), args.case_sensitive).raised
    /\ apply_regex_transformations(args.text, Reverse(args.rules), args.case_sensitive).value
           # ret.value

-----------------------------------------------------------------------------
(* The page-number scenario: the delete rule ^Page \d+ on                  *)
(* "Page 1\nBody text\nPage 2"                                             *)

BodyText == <<"B", "o", "d", "y", " ", "t", "e", "x", "t">>

PageCall ==
    /\ ApplyReturned
    /\ args.text = PageText
    /\ args.rules = <<RegexRule(PagePattern, NoText)>>

\* t holds the characters of w somewhere
Contains(t, w) ==
    \E i \in 1..(Len(t) - Len(w) + 1) : SubSeq(t, i, i + Len(w) - 1) = w

(* C13 as stated: the rule removes both page lines and leaves exactly      *)
(* "Body text".                                                            *)
C13_PageRuleLeavesBodyText == PageCall => ret = Ok(BodyText)

(* C13 amended: the rule removes both matches, "Page 1" and "Page 2", and  *)
(* nothing else: the two line breaks stay, so the result is                *)
(* "\nBody text\n", whose only non-blank line is "Body text".              *)
C13_PageRuleLeavesBodyLine ==
    PageCall =>
        /\ ~ret.raised
        /\ ret.value = <<"\n">> \o BodyText \o <<"\n">>
        /\ ~Contains(ret.value, <<"P", "a", "g", "e">>)
        /\ StripNonEmpty(split(ret.value, "\n")) = <<BodyText>>

C13_Witness == PageCall /\ ~ret.raised /\ Len(ret.value) = Len(PageText) - 12

-----------------------------------------------------------------------------
(* The two argument parsers                                                *)

ExcludeParsed == pc = "return" /\ args.fn = "parse_exclude_words_argument"
RuleParsed    == pc = "return" /\ args.fn = "parse_regex_rule_argument"
Parsed        == ExcludeParsed \/ RuleParsed

\* the spec is not blank and names no file of the working directory
InlineSpec(arg) == ~Blank(arg) /\ ~isfile(strip(arg))
\* the spec names a file that cannot be read
UnreadableSpec(arg) ==
    ~Blank(arg) /\ isfile(strip(arg)) /\ ~FileAt(strip(arg)).readable

\* the pattern of an inline rule: what stands before the first |
InlinePattern(arg) ==
    strip(SubSeq(strip(arg), 1, ScanToChar(strip(arg), 1, "|") - 1))

\* the error of a file that cannot be read
IOError(r) == r.raised /\ r.value = "FileHandlerError" /\ r.origin = "io"

SpecLines(arg) == readlines(FileAt(strip(arg)).content)

\* line n of the file holds a rule whose pattern does not compile
BadLine(lines, n) ==
    /\ strip(lines[n]) # <<>>
    /\ strip(lines[n])[1] # "#"
    /\ InlinePattern(lines[n]) # <<>>
    /\ ~re_compiles(InlinePattern(lines[n]))

\* the spec names a readable file with at least one such line
BadFileSpec(arg) ==
    /\ ~Blank(arg) /\ isfile(strip(arg)) /\ FileAt(strip(arg)).readable
    /\ \E n \in 1..Len(SpecLines(arg)) : BadLine(SpecLines(arg), n)

FirstBadLine(lines) ==
    CHOOSE n \in 1..Len(lines) :
        BadLine(lines, n) /\ \A m \in 1..(n - 1) : ~BadLine(lines, m)

\* an inline rule whose pattern does not compile
BadInlineSpec(arg) ==
    InlineSpec(arg) /\ InlinePattern(arg) # <<>> /\ ~re_compiles(InlinePattern(arg))

\* the error of a rule that does not compile, with the pattern it names
RuleError(r, pattern) ==
    /\ r.raised /\ r.value = "FileHandlerError" /\ r.origin = "regex_compile"
    /\ r.pattern = pattern

(* C15: a rule file with a line whose pattern does not compile makes       *)
(* parse_regex_rule_argument fail with a rule error that names the pattern *)
(* and the 1-based number of the first such line, blank and '#' lines      *)
(* counted, and no rule is returned even when earlier lines are valid; the *)
(* error of an inline rule names its pattern.                              *)
C15_RuleErrorNamesPatternAndLine ==
    /\ (RuleParsed /\ BadFileSpec(args.arg)) =>
          /\ RuleError(ret, InlinePattern(SpecLines(args.arg)[FirstBadLine(SpecLines(args.arg))]))
          /\ ret.line_num = FirstBadLine(SpecLines(args.arg))
    /\ (RuleParsed /\ BadInlineSpec(args.arg)) =>
          RuleError(ret, InlinePattern(args.arg))

\* the file whose first bad line is line 4, after a comment, a blank line
\* and a valid rule, and before another bad line
C15_Witness ==
    /\ RuleParsed
    /\ BadFileSpec(args.arg)
    /\ ret.raised
    /\ ret.line_num = 4
    /\ \E n \in 5..Len(SpecLines(args.arg)) : BadLine(SpecLines(args.arg), n)
    /\ \E n \in 1..3 : ~_parse_single_regex_rule(SpecLines(args.arg)[n]).raised
                       /\ _parse_single_regex_rule(SpecLines(args.arg)[n]).value # <<>>

(* C16: every RegexRule value has a pattern that compiles, checked when    *)
(* the rule was created, so no rule that apply_regex_transformations       *)
(* receives has a pattern that fails to compile.                           *)
C16_EveryRuleCompiles ==
    ApplyReturned =>
        \A i \in 1..Len(args.rules) : re_compiles(args.rules[i].pattern)

\* the largest group a two-digit reference can name: with so many groups
\* every reference parses
AnyGroups == Len(DigitSeq) * Len(DigitSeq) - 1

\* the replacement of the rule names a group its pattern does not have
UndefinedGroup(rule) ==
    /\ rule.pattern # <<>>
    /\ re_compiles(rule.pattern)
    /\ rule.replacement # NoText
    /\ ~ParseTemplate(rule.replacement, 1, AnyGroups).raised
    /\ \E j \in 1..Len(ParseTemplate(rule.replacement, 1, AnyGroups).value) :
           ParseTemplate(rule.replacement, 1, AnyGroups).value[j].ref
               > NumGroups(rule.pattern)

\* re.sub of the rule raises, whatever the text
Fails(rule) ==
    /\ rule.pattern # <<>>
    /\ \/ ~re_compiles(rule.pattern)
       \/ /\ rule.replacement # NoText
          /\ ParseTemplate(rule.replacement, 1, NumGroups(rule.pattern)).raised

\* rule k is the first of the list that fails, and it fails by naming a
\* group that is not defined
FirstFailureUndefinedGroup(rules, k) ==
    /\ UndefinedGroup(rules[k])
    /\ \A j \in 1..(k - 1) : ~Fails(rules[j])

(* C17: when the first rule that fails does so because its replacement     *)
(* names a capture group its pattern does not define,                      *)
(* apply_regex_transformations raises a ValueError that names that rule    *)
(* (its pattern) and returns no text, whatever the rules before it did to  *)
(* the text and whether or not the pattern matches.                        *)
C17_UndefinedGroupRaises ==
    ApplyReturned =>
        \A k \in 1..Len(args.rules) :
            FirstFailureUndefinedGroup(args.rules, k) =>
                /\ ret.raised
                /\ ret.value = "ValueError"
                /\ ret.pattern = args.rules[k].pattern
                /\ ret.detail = "invalid_group_reference"

\* the rule before the failing one changed the text, and the pattern of
\* the failing one matches nothing
C17_Witness ==
    /\ ApplyReturned
    /\ Len(args.rules) = 2
    /\ FirstFailureUndefinedGroup(args.rules, 2)
    /\ apply_regex_transformations(args.text, <<args.rules[1]>>, args.case_sensitive).value
           # args.text
    /\ ~MatchesIn(args.rules[2],
                  apply_regex_transformations(args.text, <<args.rules[1]>>,
                                              args.case_sensitive).value,
                  args.case_sensitive)
    /\ ret.raised

-----------------------------------------------------------------------------
(* generate_wordcloud: the validations, the call of                        *)
(* process_text_to_frequencies (the actions above, from pc = "start" to    *)
(* "done" or "failed"), the rendering and the export of the statistics.    *)
(* What the file system and the rendering library do is part of the call:  *)
(* input_file_ok, color_ok, render_fails, export_fails.                    *)

LANGUAGES_FOR_NLTK ==
    {"english", "spanish", "french", "german", "italian", "portuguese"}

\* the first validation that raises, in the order of the body, as
\* <<exception, origin>>; <<>> when all pass
FailedValidation(a) ==
    IF ~a.input_file_ok THEN <<"ValidationError", "validate_input_file">>
    ELSE IF a.input.kind = "bad_json" THEN <<"JSONParseError", "validate_json_format">>
    ELSE IF a.input.kind # "json" /\ a.language \notin LANGUAGES_FOR_NLTK
         THEN <<"ValidationError", "validate_language">>
    ELSE IF ~a.color_ok THEN <<"ValidationError", "validate_color_reference">>
    ELSE <<>>

\* validate_output_file ... validate_color_reference
ServiceValidate ==
    /\ pc = "validate"
    /\ args.fn = Service
    /\ IF FailedValidation(args) # <<>>
       THEN /\ error' = Wrap(FailedValidation(args)[1], FailedValidation(args)[2])
            /\ pc' = "service_failed"
       ELSE /\ pc' = "start"
            /\ UNCHANGED error
    /\ UNCHANGED <<args, text, text_processed, frequencies, trace, ret>>

\* the WordCloudServiceError of process_text_to_frequencies reaches the
\* second except clause of generate_wordcloud
ServiceReraise ==
    /\ pc = "failed"
    /\ args.fn = Service
    /\ error' = [type |-> "WordCloudServiceError", cause |-> "WordCloudServiceError",
                 origin |-> error.origin, unexpected |-> TRUE,
                 message |-> <<UnexpectedPrefix>> \o error.message]
    /\ pc' = "service_failed"
    /\ UNCHANGED <<args, text, text_processed, frequencies, trace, ret>>

\* generate_word_cloud_from_frequencies, then `if export_stats:` or
\* `return frequencies`
ServiceRender ==
    /\ pc = "done"
    /\ args.fn = Service
    /\ IF args.render_fails
       THEN /\ error' = Wrap("Exception", "render")
            /\ pc' = "service_failed"
            /\ UNCHANGED ret
       ELSE IF args.export_stats
       THEN /\ pc' = "export"
            /\ UNCHANGED <<error, ret>>
       ELSE /\ ret' = frequencies
            /\ pc' = "service_done"
            /\ UNCHANGED error
    /\ UNCHANGED <<args, text, text_processed, frequencies, trace>>

\* export_statistics and `return frequencies`
ServiceExport ==
    /\ pc = "export"
    /\ IF args.export_fails
       THEN /\ error' = Wrap("Exception", "export_statistics")
            /\ pc' = "service_failed"
            /\ UNCHANGED ret
       ELSE /\ ret' = frequencies
            /\ pc' = "service_done"
            /\ UNCHANGED error
    /\ UNCHANGED <<args, text, text_processed, frequencies, trace>>

NextService ==
    \/ ServiceValidate
    \/ ReadInput
    \/ Exclude
    \/ ReplaceOriginal
    \/ Preprocess
    \/ Lemmatize
    \/ ReplaceProcessed
    \/ Count
    \/ ServiceReraise
    \/ ServiceRender
    \/ ServiceExport

ServiceText == <<"c", "a", "t", "s", " ", "b", ".", " ", "c", " ", "A">>

\* the calls of generate_wordcloud: every kind of input, a supported and
\* an unsupported language, exclusion and rule arguments that parse and
\* that do not, and every outcome of the file system and the renderer
ServiceCalls ==
    { [Defaults EXCEPT !.fn = Service, !.input = i, !.language = l,
                       !.include_stopwords = f[1], !.ngram = n,
                       !.exclude_words = x, !.regex_rule = g]
      @@ [input_file_ok |-> f[2], color_ok |-> f[3], render_fails |-> f[4],
          export_stats |-> f[5], export_fails |-> f[6]] :
        i \in EnvInputs \cup {TextInput(ServiceText)},
        l \in {"english", "klingon"},
        f \in BOOLEAN \X BOOLEAN \X BOOLEAN \X BOOLEAN \X BOOLEAN \X BOOLEAN,
        n \in {"unigram", "bigram"},
        x \in {NoText, <<"b">>, <<"u", "f">>},
        g \in {NoText, <<"d", "|", "e">>, <<"(">>, <<"b", "|", "\\", "1">>} }

\* generate_wordcloud, and process_text_to_frequencies called by itself
InitService ==
    /\ \/ pc = "validate" /\ args \in ServiceCalls
       \/ pc = "start" /\ args \in RuleCalls \cup EnvCalls
    /\ ret = None
    /\ Idle

SpecService == InitService /\ [][NextService]_vars

-----------------------------------------------------------------------------
(* Properties of the two service functions                                 *)

\* the call has raised to its caller, has returned to its caller
ServiceFailed ==
    \/ args.fn = Pipeline /\ pc = "failed"
    \/ args.fn = Service /\ pc = "service_failed"
ServiceReturned ==
    \/ args.fn = Pipeline /\ pc = "done"
    \/ args.fn = Service /\ pc = "service_done"

\* the stage calls of the trace that raised
RaisedIndexes == { i \in 1..Len(trace) : trace[i].raised }

\* the message of the service error is the message of the exception raised
\* at e.origin, with nothing but "Unexpected error: " before it
CarriesOriginal(e) ==
    /\ e.message # <<>>
    /\ Len(e.message[Len(e.message)]) = 2
    /\ e.message[Len(e.message)][2] = e.origin
    /\ \A i \in 1..(Len(e.message) - 1) : e.message[i] = UnexpectedPrefix

\* the stages the body calls once
OnceStages == {"read", "exclude", "normalize", "lemmatize", "count"}

-----------------------------------------------------------------------------
(* Report analysis: _compute_analysis, _top_words, _hapax_legomena,        *)
(* _safe_percent.  A frequency map is the sequence of its items in         *)
(* insertion order; a float that holds a ratio is the reduced fraction     *)
(* <<numerator, denominator>> (the rounding of the division is not         *)
(* modelled).                                                              *)

\* the characters in the order of their code points
CodeOrder ==
    <<" ">> \o DigitSeq \o SubSeq(UpperSeq, 1, 26) \o <<"_">> \o SubSeq(LowerSeq, 1, 26)
    \o <<UpperSeq[27], LowerSeq[27]>>

ord(c) == CHOOSE n \in 1..Len(CodeOrder) : CodeOrder[n] = c

RECURSIVE StrLess(_, _)
\* a < b on str
StrLess(a, b) ==
    IF b = <<>> THEN FALSE
    ELSE IF a = <<>> THEN TRUE
    ELSE IF Head(a) # Head(b) THEN ord(Head(a)) < ord(Head(b))
    ELSE StrLess(Tail(a), Tail(b))

RECURSIVE GCD(_, _)
GCD(a, b) == IF b = 0 THEN a ELSE GCD(b, a % b)

\* the float a / b, b > 0
Ratio(a, b) == <<a \div GCD(a, b), b \div GCD(a, b)>>

_safe_percent(freq, total) ==
    IF total <= 0 THEN <<0, 1>> ELSE Ratio(100 * freq, total)

RECURSIVE SumCounts(_)
\* sum(frequencies.values())
SumCounts(freqs) ==
    IF freqs = <<>> THEN 0
    ELSE Head(freqs).count + SumCounts(Tail(freqs))

SortKeyBeforeMut(x, y) == StrLess(x.key, y.key)

\* key=lambda item: (-item[1], item[0]): x sorts before y
SortKeyBefore(x, y) ==
    x.count > y.count \/ (x.count = y.count /\ StrLess(x.key, y.key))

RECURSIVE InsertItem(_, _)
InsertItem(x, sorted) ==
    IF sorted = <<>> THEN <<x>>
    ELSE IF SortKeyBefore(Head(sorted), x) \/ Head(sorted) = x
         THEN <<Head(sorted)>> \o InsertItem(x, Tail(sorted))
    ELSE <<x>> \o sorted

RECURSIVE SortedItems(_)
\* sorted(frequencies.items(), key=...)
SortedItems(items) ==
    IF items = <<>> THEN <<>>
    ELSE InsertItem(items[Len(items)], SortedItems(SubSeq(items, 1, Len(items) - 1)))

_top_words(freqs, total_tokens, top_n) ==
    IF freqs = <<>> \/ top_n <= 0 THEN <<>>
    ELSE [i \in 1..Min2(top_n, Len(freqs)) |->
             [word      |-> SortedItems(freqs)[i].key,
              frequency |-> SortedItems(freqs)[i].count,
              percent   |-> _safe_percent(SortedItems(freqs)[i].count,
                                          total_tokens)]]

IsHapaxMut(freq) == freq >= 1

\* abs(float(freq) - 1.0) < 1e-9
IsHapax(freq) == freq = 1

RECURSIVE InsertToken(_, _)
InsertToken(t, sorted) ==
    IF sorted = <<>> THEN <<t>>
    ELSE IF StrLess(t, Head(sorted)) THEN <<t>> \o sorted
    ELSE <<Head(sorted)>> \o InsertToken(t, Tail(sorted))

RECURSIVE SortedTokens(_)
\* tokens.sort()
SortedTokens(tokens) ==
    IF tokens = <<>> THEN <<>>
    ELSE InsertToken(Head(tokens), SortedTokens(Tail(tokens)))

\* [word for word, freq in frequencies.items() if ...], sorted
HapaxTokens(freqs) ==
    SortedTokens(SelectSeq([i \in 1..Len(freqs) |->
                               IF IsHapax(freqs[i].count)
                               THEN freqs[i].key ELSE <<>>],
                           LAMBDA k : k # <<>>))

MaxShuffled == 3

\* what rng.shuffle can make of the tokens.  The order is a function of
\* the SHA-256 of the tokens, which the model does not compute: it is any
\* order for up to MaxShuffled tokens, and any rotation of the tokens or of
\* their reverse for more
Shuffles(tokens) ==
    IF Len(tokens) <= MaxShuffled
    THEN { [i \in 1..Len(tokens) |-> tokens[p[i]]] :
             p \in { q \in [1..Len(tokens) -> 1..Len(tokens)] :
                       \A i, j \in 1..Len(tokens) : q[i] = q[j] => i = j } }
    ELSE { [i \in 1..Len(tokens) |-> tokens[((i + r) % Len(tokens)) + 1]] :
             r \in 0..(Len(tokens) - 1) }
         \cup { [i \in 1..Len(tokens) |-> tokens[Len(tokens) - ((i + r) % Len(tokens))]] :
                  r \in 0..(Len(tokens) - 1) }

\* the result of _hapax_legomena when the shuffle leaves the order sample
HapaxResult(tokens, sample, sample_size) ==
    [count |-> Len(tokens), sample |-> SubSeq(sample, 1, Min2(sample_size, Len(sample)))]

\* the sample_size _compute_analysis passes
HapaxSampleSize == 20

\* an Optional[float] or Optional[int] that is None; one that is set is
\* the fraction <<n, d>> or the one-element sequence <<n>>
NoNumber == <<>>

\* total_tokens and (unique_tokens / total_tokens) or 0.0
token_ratio(total_tokens, unique_tokens) ==
    IF total_tokens = 0 \/ unique_tokens = 0 THEN <<0, 1>>
    ELSE Ratio(unique_tokens, total_tokens)

TokenKeyBeforeMut(a, b) == Len(a) < Len(b)

\* key=lambda token: (len(token), token): a sorts before b
TokenKeyBefore(a, b) == Len(a) < Len(b) \/ (Len(a) = Len(b) /\ StrLess(a, b))

\* min(frequencies.keys(), key=...): the first key no other key sorts before
shortest_token(freqs) ==
    freqs[CHOOSE i \in 1..Len(freqs) :
            /\ \A j \in 1..(i - 1) : TokenKeyBefore(freqs[i].key, freqs[j].key)
            /\ \A j \in (i + 1)..Len(freqs) : ~TokenKeyBefore(freqs[j].key, freqs[i].key)].key

\* max(frequencies.keys(), key=...): the first key that sorts before no other
longest_token(freqs) ==
    freqs[CHOOSE i \in 1..Len(freqs) :
            /\ \A j \in 1..(i - 1) : TokenKeyBefore(freqs[j].key, freqs[i].key)
            /\ \A j \in (i + 1)..Len(freqs) : ~TokenKeyBefore(freqs[i].key, freqs[j].key)].key

\* the keys of length_weights
Lengths(freqs) == { Len(freqs[i].key) : i \in 1..Len(freqs) }

\* length_weights[n], and the sum of length_weights up to n
LengthWeight(freqs, n) ==
    SumCounts(SelectSeq(freqs, LAMBDA x : Len(x.key) = n))
CumulativeWeight(freqs, n) ==
    SumCounts(SelectSeq(freqs, LAMBDA x : Len(x.key) <= n))

RECURSIVE SumLengths(_)
\* sum(length * weight for length, weight in length_weights.items())
SumLengths(freqs) ==
    IF freqs = <<>> THEN 0
    ELSE Len(Head(freqs).key) * Head(freqs).count + SumLengths(Tail(freqs))

_weighted_median(freqs, total_weight) ==
    IF total_weight <= 0 THEN NoNumber
    ELSE IF \E n \in Lengths(freqs) : 2 * CumulativeWeight(freqs, n) >= total_weight
         THEN << CHOOSE n \in Lengths(freqs) :
                   /\ 2 * CumulativeWeight(freqs, n) >= total_weight
                   /\ \A m \in Lengths(freqs) :
                         m < n => 2 * CumulativeWeight(freqs, m) < total_weight, 1 >>
    ELSE << CHOOSE n \in Lengths(freqs) : \A m \in Lengths(freqs) : m <= n, 1 >>

_compute_length_stats(freqs) ==
    IF freqs = <<>>
    THEN [avg_length |-> NoNumber, median_length |-> NoNumber,
          shortest_token |-> NoText, longest_token |-> NoText]
    ELSE [avg_length     |-> IF SumCounts(freqs) > 0
                             THEN Ratio(SumLengths(freqs), SumCounts(freqs))
                             ELSE NoNumber,
          median_length  |-> _weighted_median(freqs, SumCounts(freqs)),
          shortest_token |-> shortest_token(freqs),
          longest_token  |-> longest_token(freqs)]

\* {word: freq for word, freq in frequencies.items() if float(freq) != 1.0}
NonHapaxItems(freqs) == SelectSeq(freqs, LAMBDA x : x.count # 1)

\* {word: freq for ... if abs(float(freq) - 1.0) < 1e-9}
HapaxItems(freqs) == SelectSeq(freqs, LAMBDA x : IsHapax(x.count))

\* [word for word, freq in ...]
KeysOf(items) == [i \in 1..Len(items) |-> items[i].key]

\* max(len(token) ...) if find_max else min(len(token) ...)
ExtremeLength(tokens, find_max) ==
    CHOOSE n \in { Len(tokens[i]) : i \in 1..Len(tokens) } :
        \A i \in 1..Len(tokens) :
            IF find_max THEN Len(tokens[i]) <= n ELSE Len(tokens[i]) >= n

_tokens_by_length(tokens, find_max) ==
    IF tokens = <<>> THEN [length |-> NoNumber, tokens |-> <<>>]
    ELSE [length |-> << ExtremeLength(tokens, find_max) >>,
          tokens |-> SortedTokens(SelectSeq(tokens,
                        LAMBDA t : Len(t) = ExtremeLength(tokens, find_max)))]

_compute_hapax_stats(freqs) ==
    [hapax_longest      |-> _tokens_by_length(KeysOf(HapaxItems(freqs)), TRUE),
     hapax_shortest     |-> _tokens_by_length(KeysOf(HapaxItems(freqs)), FALSE),
     non_hapax_longest  |-> _tokens_by_length(KeysOf(NonHapaxItems(freqs)), TRUE),
     non_hapax_shortest |-> _tokens_by_length(KeysOf(NonHapaxItems(freqs)), FALSE)]

RECURSIVE InsertInt(_, _)
InsertInt(n, sorted) ==
    IF sorted = <<>> THEN <<n>>
    ELSE IF n < Head(sorted) THEN <<n>> \o sorted
    ELSE <<Head(sorted)>> \o InsertInt(n, Tail(sorted))

RECURSIVE SortedInts(_)
\* sorted(buckets)
SortedInts(ns) ==
    IF ns = <<>> THEN <<>> ELSE InsertInt(Head(ns), SortedInts(Tail(ns)))

AccumulateMut(cumulative, freq) == freq

\* cumulative += float(freq)
Accumulate(cumulative, freq) == cumulative + freq

\* the entry of one bucket
BucketEntry(bucket, cumulative, total_tokens, unique_tokens) ==
    [percent_of_total  |-> _safe_percent(cumulative, total_tokens),
     percent_of_unique |-> _safe_percent(bucket, unique_tokens)]

RECURSIVE PopTargets(_, _, _, _, _, _)
\* while targets and current_index >= targets[0]: the pair of the targets
\* and the results after the loop
PopTargets(targets, results, current_index, cumulative, total_tokens, unique_tokens) ==
    IF targets # <<>> /\ current_index >= Head(targets)
    THEN PopTargets(Tail(targets),
                    (Head(targets) :> BucketEntry(Head(targets), cumulative,
                                                  total_tokens, unique_tokens))
                        @@ results,
                    current_index, cumulative, total_tokens, unique_tokens)
    ELSE <<targets, results>>

RECURSIVE DefaultBuckets(_, _, _, _, _)
\* for bucket in buckets: results.setdefault(bucket, {...})
DefaultBuckets(buckets, results, cumulative, total_tokens, unique_tokens) ==
    IF buckets = <<>> THEN results
    ELSE DefaultBuckets(Tail(buckets),
                        results @@ (Head(buckets) :>
                            BucketEntry(Head(buckets), cumulative,
                                        total_tokens, unique_tokens)),
                        cumulative, total_tokens, unique_tokens)

RECURSIVE ConcentrationWalk(_, _, _, _, _, _, _)
\* for _, freq in sorted_items: ..., then the defaults; popped is the pair
\* PopTargets left at the item before
ConcentrationWalk(items, current_index, cumulative, popped, buckets, total_tokens, unique_tokens) ==
    IF current_index = Len(items) \/ popped[1] = <<>>
    THEN DefaultBuckets(buckets, popped[2], cumulative, total_tokens, unique_tokens)
    ELSE ConcentrationWalk(items, current_index + 1,
             Accumulate(cumulative, items[current_index + 1].count),
             PopTargets(popped[1], popped[2], current_index + 1,
                        Accumulate(cumulative, items[current_index + 1].count),
                        total_tokens, unique_tokens),
             buckets, total_tokens, unique_tokens)

\* the empty dict
NoResults == [b \in {} |-> <<>>]

_vocabulary_concentration(freqs, total_tokens, buckets) ==
    IF freqs = <<>> \/ total_tokens <= 0
    THEN [b \in { buckets[i] : i \in 1..Len(buckets) } |->
             [percent_of_total |-> <<0, 1>>, percent_of_unique |-> <<0, 1>>]]
    ELSE ConcentrationWalk(SortedItems(freqs), 0, 0,
                           <<SortedInts(buckets), NoResults>>,
                           buckets, total_tokens, Len(freqs))

\* the buckets _compute_analysis asks for
AnalysisBuckets == <<5, 10, 20>>

\* the result of _compute_analysis when the shuffle leaves the order sample
AnalysisResult(freqs, top_n, sample) ==
    [total_tokens  |-> SumCounts(freqs),
     unique_tokens |-> Len(freqs),
     token_ratio   |-> token_ratio(SumCounts(freqs), Len(freqs)),
     length_stats  |-> _compute_length_stats(freqs),
     length_stats_non_hapax |-> _compute_length_stats(NonHapaxItems(freqs)),
     length_stats_hapax     |-> _compute_length_stats(HapaxItems(freqs)),
     top_words     |-> _top_words(freqs, SumCounts(freqs), top_n),
     hapax         |-> HapaxResult(HapaxTokens(freqs), sample, HapaxSampleSize),
     hapax_stats   |-> _compute_hapax_stats(freqs),
     concentration |-> _vocabulary_concentration(freqs, SumCounts(freqs),
                                                 AnalysisBuckets)]

MaxMapKeys == 3

Cat == <<"c", "a", "t">>
Sat == <<"s", "a", "t">>
Mat == <<"m", "a", "t">>
Ran == <<"r", "a", "n">>

KeyPool == {Cat, Sat, Mat, <<"B">>}
CountPool == 0..2

\* {cat: 2, sat: 1, mat: 1, ran: 1}
ScenarioMap ==
    << [key |-> Cat, count |-> 2], [key |-> Sat, count |-> 1],
       [key |-> Mat, count |-> 1], [key |-> Ran, count |-> 1] >>

\* one key more than the sample holds, each counted once, before a key
\* that is counted twice
ManyHapaxMap ==
    [i \in 1..(HapaxSampleSize + 1) |-> [key |-> <<LowerSeq[i]>>, count |-> 1]]
    \o << [key |-> Cat, count |-> 2] >>

\* every map of up to MaxMapKeys keys of the pool, in every insertion order
SmallMaps ==
    UNION { { [i \in 1..k |-> [key |-> ks[i], count |-> cs[i]]] :
                ks \in { s \in [1..k -> KeyPool] : \A i, j \in 1..k : s[i] = s[j] => i = j },
                cs \in [1..k -> CountPool] } : k \in 0..MaxMapKeys }

FreqMaps == SmallMaps \cup {ScenarioMap, ManyHapaxMap}

TopNs == (-1)..(MaxMapKeys + 1) \cup {HapaxSampleSize}

MaxBuckets == 2

\* the bucket sizes a caller asks for: up to MaxBuckets sizes in any order,
\* and the three of _compute_analysis
BucketLists ==
    UNION { [1..k -> 1..(MaxMapKeys + 1)] : k \in 1..MaxBuckets } \cup {AnalysisBuckets}

InitReport ==
    /\ pc = "call"
    /\ \/ args \in [fn : {"_compute_analysis"}, frequencies : FreqMaps, top_n : TopNs]
       \/ args \in [fn : {"_hapax_legomena"}, frequencies : FreqMaps,
                    sample_size : 0..2 \cup {HapaxSampleSize}]
       \/ args \in [fn : {"_vocabulary_concentration"}, frequencies : FreqMaps,
                    buckets : BucketLists]
    /\ ret = None
    /\ Idle

CallComputeAnalysis ==
    /\ pc = "call"
    /\ args.fn = "_compute_analysis"
    /\ \E sample \in Shuffles(HapaxTokens(args.frequencies)) :
           ret' = AnalysisResult(args.frequencies, args.top_n, sample)
    /\ pc' = "return"
    /\ UNCHANGED <<args, text, text_processed, frequencies, error, trace>>

CallHapaxLegomena ==
    /\ pc = "call"
    /\ args.fn = "_hapax_legomena"
    /\ \E sample \in Shuffles(HapaxTokens(args.frequencies)) :
           ret' = HapaxResult(HapaxTokens(args.frequencies), sample, args.sample_size)
    /\ pc' = "return"
    /\ UNCHANGED <<args, text, text_processed, frequencies, error, trace>>

\* _vocabulary_concentration(frequencies, total_tokens, buckets) with the
\* total _compute_analysis passes
CallVocabularyConcentration ==
    /\ pc = "call"
    /\ args.fn = "_vocabulary_concentration"
    /\ ret' = _vocabulary_concentration(args.frequencies, SumCounts(args.frequencies),
                                        args.buckets)
    /\ pc' = "return"
    /\ UNCHANGED <<args, text, text_processed, frequencies, error, trace>>

NextReport == CallComputeAnalysis \/ CallHapaxLegomena \/ CallVocabularyConcentration

SpecReport == InitReport /\ [][NextReport]_vars

Analysed == pc = "return" /\ args.fn = "_compute_analysis"

\* the count of a key of the map
CountOf(freq, key) == freq[CHOOSE i \in 1..Len(freq) : freq[i].key = key].count

\* item x of the map stands before item y in the order of the top words:
\* the higher count first, the smaller key first among equal counts
StandsBefore(x, y) ==
    x.count > y.count \/ (x.count = y.count /\ x.key # y.key /\ ~StrLess(y.key, x.key))

\* the number of items of the map that stand before x
RankOf(freq, x) == Cardinality({ j \in 1..Len(freq) : StandsBefore(freq[j], x) })

(* C19: for every frequency map and every n, the top-words list of         *)
(* _compute_analysis holds min(n, unique) entries (none when n <= 0); its  *)
(* entry i is the item of the map with exactly i - 1 items before it in    *)
(* the order by descending count, then ascending key, and carries          *)
(* percent = 100 * count / total, 0 when total is 0.  For                  *)
(* {cat: 2, sat: 1, mat: 1, ran: 1}: total 5, unique 4, first entry        *)
(* (cat, 2, 40%).                                                          *)
C19_TopWordsRanked ==
    Analysed =>
        /\ ret.total_tokens = SumCounts(args.frequencies)
        /\ ret.unique_tokens = Len(args.frequencies)
        /\ Len(ret.top_words)
              = (IF args.top_n <= 0 THEN 0 ELSE Min2(args.top_n, ret.unique_tokens))
        /\ \A i \in 1..Len(ret.top_words) :
              /\ \E j \in 1..Len(args.frequencies) :
                    /\ args.frequencies[j].key = ret.top_words[i].word
                    /\ args.frequencies[j].count = ret.top_words[i].frequency
                    /\ RankOf(args.frequencies, args.frequencies[j]) = i - 1
              /\ ret.top_words[i].percent[2] > 0
              /\ IF ret.total_tokens = 0 THEN ret.top_words[i].percent[1] = 0
                 ELSE ret.top_words[i].percent[1] * ret.total_tokens
                          = 100 * ret.top_words[i].frequency * ret.top_words[i].percent[2]
        /\ (args.frequencies = ScenarioMap) =>
              /\ ret.total_tokens = 5
              /\ ret.unique_tokens = 4
              /\ args.top_n >= 1 =>
                    ret.top_words[1] = [word |-> Cat, frequency |-> 2, percent |-> <<40, 1>>]

\* top_words(2) of the scenario: cat, then the smallest key counted once
C19_Witness ==
    /\ Analysed
    /\ args.frequencies = ScenarioMap
    /\ args.top_n = 2
    /\ Len(ret.top_words) = 2
    /\ ret.top_words[2].word = Mat

HapaxReturned == pc = "return" /\ args.fn \in {"_compute_analysis", "_hapax_legomena"}

\* the hapax part of what the call returned, and the cap it was given
ReturnedHapax == IF args.fn = "_compute_analysis" THEN ret.hapax ELSE ret
SampleCap == IF args.fn = "_compute_analysis" THEN HapaxSampleSize ELSE args.sample_size

\* the keys the map counts once
OnceKeys(freq) == { freq[i].key : i \in { j \in 1..Len(freq) : freq[j].count = 1 } }

-----------------------------------------------------------------------------
(* Calls of the analysis on a map the caller keeps: the map is the dict    *)
(* object in `frequencies`, `trace` holds what each call was given and     *)
(* what it returned.                                                       *)

\* ord() of a character of a seed source
CodePoint(c) == IF c = "|" THEN Len(CodeOrder) + 1 ELSE ord(c)

\* "|".join(tokens).encode("utf-8")
SeedSource(tokens) == JoinWith(tokens, <<"|">>)

SeedSpace == 64

RECURSIVE Digest(_, _)
\* int(hashlib.sha256(seed_source).hexdigest(), 16) % (2**32).  SHA-256 is
\* not computed: the digest is a function of the bytes and of nothing
\* else, here the sum of the code points weighted by their positions, plus
\* the salt that tells the functions of the family apart
Digest(seed_source, salt) ==
    IF seed_source = <<>> THEN salt
    ELSE (Len(seed_source) * CodePoint(seed_source[Len(seed_source)])
            + Digest(Front(seed_source), salt)) % SeedSpace

RngStateMut(seed_value, calls_before) == seed_value + calls_before

\* rng = random.Random(seed_value): the generator is made anew in every
\* call, so its state is the seed whatever was called before
RngState(seed_value, calls_before) == seed_value

\* rng.shuffle(sample): the order is a function of the state of the
\* generator and of the length of the list, one of Shuffles(tokens)
shuffle(tokens, state) ==
    IF tokens = <<>> THEN <<>>
    ELSE IF (state \div Len(tokens)) % 2 = 0
         THEN [i \in 1..Len(tokens) |-> tokens[((i + state) % Len(tokens)) + 1]]
    ELSE [i \in 1..Len(tokens) |-> tokens[Len(tokens) - ((i + state) % Len(tokens))]]

\* _compute_analysis(frequencies, top_n=top_n) as call number
\* calls_before + 1 of the process
_compute_analysis(freqs, top_n, salt, calls_before) ==
    AnalysisResult(freqs, top_n,
        shuffle(HapaxTokens(freqs),
                RngState(Digest(SeedSource(HapaxTokens(freqs)), salt), calls_before)))

-----------------------------------------------------------------------------
(* The insights on the top words: _build_top_word_insights,                *)
(* _top_word_bigrams, _extract_bigram_context_examples.  An Optional map   *)
(* or list is the empty sequence when it is None and the one-element       *)
(* sequence of its value when it is set; a dict keyed by terms is a        *)
(* function on the set of its keys.                                        *)

Absent == <<>>
Given(x) == <<x>>

\* `if x:` on an Optional map or list
NonEmpty(opt) == opt # Absent /\ opt[1] # <<>>

RECURSIVE FieldsFrom(_, _)
FieldsFrom(s, i) ==
    IF i > Len(s) THEN <<>>
    ELSE IF IsSpace(s[i]) THEN FieldsFrom(s, i + 1)
    ELSE <<SubSeq(s, i, ScanToSpace(s, i) - 1)>> \o FieldsFrom(s, ScanToSpace(s, i))

\* str.split()
Fields(s) == FieldsFrom(s, 1)

\* s[:n]
Take(s, n) == SubSeq(s, 1, Min2(n, Len(s)))

InPositionMut(term, parts) == parts[1] = term

\* `parts[0] == term or parts[1] == term`
InPosition(term, parts) == parts[1] = term \/ parts[2] = term

\* the matches of a term in the order of the bigram map
TermMatches(term, bigram_freqs) ==
    SelectSeq(bigram_freqs,
              LAMBDA x : Len(Fields(x.key)) = 2 /\ InPosition(term, Fields(x.key)))

\* {"bigram": bigram, "count": count} for each item
BigramItems(items) ==
    [i \in 1..Len(items) |-> [bigram |-> items[i].key, count |-> items[i].count]]

\* the default of max_bigrams
MaxBigrams == 5

_top_word_bigrams(top_terms, bigram_freqs) ==
    [t \in { top_terms[i] : i \in 1..Len(top_terms) } |->
        BigramItems(Take(SortedItems(TermMatches(t, bigram_freqs)), MaxBigrams))]

\* str.splitlines() of a text whose line breaks are "\n"
splitlines(s) ==
    IF s = <<>> THEN <<>>
    ELSE IF Last(split(s, "\n")) = <<>> THEN Front(split(s, "\n"))
    ELSE split(s, "\n")

SentenceDelimiters == {".", ";", "?", "!"}

RECURSIVE SplitOnFrom(_, _, _)
SplitOnFrom(s, i, j) ==
    IF j > Len(s) THEN <<SubSeq(s, i, Len(s))>>
    ELSE IF s[j] \in SentenceDelimiters
         THEN <<SubSeq(s, i, j - 1)>> \o SplitOnFrom(s, j + 1, j + 1)
    ELSE SplitOnFrom(s, i, j + 1)

\* re.split(r'[.;?!]', combined)
SentenceParts(combined) == SplitOnFrom(combined, 1, 1)

\* the current line and up to two lines after it, joined
LineWindow(lines, k) == JoinWith(SubSeq(lines, k, Min2(k + 2, Len(lines))), <<"\n">>)

\* str.isupper()
isupper(s) ==
    /\ \E i \in 1..Len(s) : s[i] \in UpperLetters
    /\ \A i \in 1..Len(s) : s[i] \notin LowerLetters

\* the tokens as they are compared
TokensCmp(tokens, case_sensitive) ==
    IF case_sensitive THEN tokens ELSE [i \in 1..Len(tokens) |-> lower(tokens[i])]

\* `set(stopwords.words(language))`, the empty set when the call raises
InsightStopwords(language) ==
    IF stopwords_words(language).raised THEN {} ELSE stopwords_words(language).value

\* tokens[i..j] is a valid occurrence of the bigram: without its stop
\* words it is the two words
ValidSpan(cmp, i, j, word1, word2, stopword_set) ==
    /\ cmp[j] = word2
    /\ SelectSeq(SubSeq(cmp, i, j), LAMBDA w : w \notin stopword_set) = <<word1, word2>>

\* " ".join(tokens[start:end]), in lower case when it is all upper case
ContextText(context) == IF isupper(context) THEN lower(context) ELSE context

\* prefix + context + suffix for the span i..j of the tokens
SpanContext(tokens, i, j, context_words) ==
    (IF i - context_words > 1 THEN <<"(", ".", ".", ".", ")", " ">> ELSE <<>>)
    \o ContextText(JoinWith(SubSeq(tokens,
                                   IF i - context_words > 1 THEN i - context_words ELSE 1,
                                   Min2(Len(tokens), j + context_words)), <<" ">>))
    \o (IF j + context_words < Len(tokens) THEN <<" ", "(", ".", ".", ".", ")">> ELSE <<>>)

\* the candidate of the span i..j
Candidate(tokens, i, j, context_words) ==
    [distance |-> j - i - 1, context |-> SpanContext(tokens, i, j, context_words)]

\* the candidate of the token at i, if there is one: word1 at i and the
\* first valid word2 among the next five tokens
TokenCandidates(tokens, cmp, i, word1, word2, stopword_set, context_words) ==
    IF cmp[i] = word1
       /\ \E j \in (i + 1)..Min2(i + 5, Len(tokens)) :
              ValidSpan(cmp, i, j, word1, word2, stopword_set)
    THEN << Candidate(tokens, i,
                CHOOSE j \in (i + 1)..Min2(i + 5, Len(tokens)) :
                    /\ ValidSpan(cmp, i, j, word1, word2, stopword_set)
                    /\ \A k \in (i + 1)..(j - 1) :
                          ~ValidSpan(cmp, i, k, word1, word2, stopword_set),
                context_words) >>
    ELSE <<>>

\* the candidates of the tokens of one part of a sentence
TokensCandidates(tokens, cmp, word1, word2, stopword_set, context_words) ==
    IF Len(tokens) < 2 THEN <<>>
    ELSE Flatten([i \in 1..Len(tokens) |->
                    TokenCandidates(tokens, cmp, i, word1, word2,
                                    stopword_set, context_words)])

\* the candidates of one part of a sentence
PartCandidates(part, case_sensitive, word1, word2, stopword_set, context_words) ==
    IF strip(part) = <<>> THEN <<>>
    ELSE TokensCandidates(FindWords(part), TokensCmp(FindWords(part), case_sensitive),
                          word1, word2, stopword_set, context_words)

\* the candidates of the parts of one window of lines
PartsCandidates(parts, case_sensitive, word1, word2, stopword_set, context_words) ==
    Flatten([p \in 1..Len(parts) |->
               PartCandidates(parts[p], case_sensitive, word1, word2,
                              stopword_set, context_words)])

\* the candidates of all windows of lines, in the order they are found
AllCandidates(lines, case_sensitive, word1, word2, stopword_set, context_words) ==
    Flatten([k \in 1..Len(lines) |->
               PartsCandidates(SentenceParts(LineWindow(lines, k)), case_sensitive,
                               word1, word2, stopword_set, context_words)])

RECURSIVE InsertCandidate(_, _)
InsertCandidate(c, sorted) ==
    IF sorted = <<>> THEN <<c>>
    ELSE IF c.distance < Head(sorted).distance THEN <<c>> \o sorted
    ELSE <<Head(sorted)>> \o InsertCandidate(c, Tail(sorted))

RECURSIVE SortedCandidates(_)
\* candidates.sort(key=lambda x: x[0]): stable
SortedCandidates(cs) ==
    IF cs = <<>> THEN <<>>
    ELSE InsertCandidate(cs[Len(cs)], SortedCandidates(Front(cs)))

RECURSIVE FirstContexts(_, _, _)
\* the loop over the sorted candidates: new contexts until max_examples
FirstContexts(cs, examples, max_examples) ==
    IF cs = <<>> THEN examples
    ELSE IF \E i \in 1..Len(examples) : examples[i] = Head(cs).context
         THEN FirstContexts(Tail(cs), examples, max_examples)
    ELSE IF Len(examples) + 1 >= max_examples THEN Append(examples, Head(cs).context)
    ELSE FirstContexts(Tail(cs), Append(examples, Head(cs).context), max_examples)

\* the examples of the two words of a bigram
WordsExamples(lines, words, case_sensitive, stopword_set, max_examples, context_words) ==
    FirstContexts(
        SortedCandidates(AllCandidates(lines, case_sensitive, words[1], words[2],
                                       stopword_set, context_words)),
        <<>>, max_examples)

_extract_bigram_context_examples(raw_text, bigram, case_sensitive, language, max_examples, context_words) ==
    IF bigram = <<>> \/ Len(Fields(bigram)) # 2 THEN <<>>
    ELSE WordsExamples(splitlines(raw_text), TokensCmp(Fields(bigram), case_sensitive),
                       case_sensitive, InsightStopwords(language), max_examples,
                       context_words)

ExamplesFullMut(term_examples, examples_per_word) == FALSE

\* `len(term_examples) < examples_per_word` fails
ExamplesFull(term_examples, examples_per_word) == Len(term_examples) >= examples_per_word

RECURSIVE TermExamples(_, _, _, _, _, _, _)
\* the while loop over the bigrams of a term
TermExamples(term_bigrams, bigram_index, term_examples, raw_text, case_sensitive, language, examples_per_word) ==
    IF ExamplesFull(term_examples, examples_per_word) \/ bigram_index > Len(term_bigrams)
    THEN term_examples
    ELSE TermExamples(term_bigrams, bigram_index + 1,
             term_examples \o _extract_bigram_context_examples(
                                 raw_text, term_bigrams[bigram_index].bigram,
                                 case_sensitive, language, 1, 1),
             raw_text, case_sensitive, language, examples_per_word)

\* bigrams_items.get(term, [])
ItemsOf(items, term) == IF term \in DOMAIN items THEN items[term] ELSE <<>>

\* top_terms of _build_top_word_insights
TopTerms(freqs, top_word_count, top_terms_override) ==
    IF NonEmpty(top_terms_override) THEN top_terms_override[1]
    ELSE KeysOf(Take(SortedItems(freqs), top_word_count))

\* bigrams_items
BigramsItems(top_terms, bigram_frequencies) ==
    IF NonEmpty(bigram_frequencies)
    THEN _top_word_bigrams(top_terms, bigram_frequencies[1])
    ELSE NoResults

\* examples_info["items"]
ExamplesItems(top_terms, bigrams_items, raw_text, case_sensitive, language, examples_per_word) ==
    IF Truthy(raw_text)
    THEN [t \in { top_terms[i] : i \in 1..Len(top_terms) } |->
             TermExamples(ItemsOf(bigrams_items, t), 1, <<>>, raw_text,
                          case_sensitive, language, examples_per_word)]
    ELSE NoResults

\* the returned dict for the top terms and the bigram items found
Insights(top_terms, bigrams_items, raw_text, bigram_frequencies, case_sensitive, language, examples_per_word) ==
    [top_terms |-> top_terms,
     bigrams   |-> [available |-> NonEmpty(bigram_frequencies),
                    reason    |-> IF NonEmpty(bigram_frequencies) THEN ""
                                  ELSE "Bigram data not available for this input.",
                    items     |-> bigrams_items],
     examples  |-> [available |-> Truthy(raw_text),
                    reason    |-> IF Truthy(raw_text) THEN ""
                                  ELSE "Original text not available for this input.",
                    items     |-> ExamplesItems(top_terms, bigrams_items, raw_text,
                                                case_sensitive, language,
                                                examples_per_word)]]

_build_top_word_insights(freqs, raw_text, bigram_frequencies, case_sensitive, language, top_word_count, examples_per_word, top_terms_override) ==
    Insights(TopTerms(freqs, top_word_count, top_terms_override),
             BigramsItems(TopTerms(freqs, top_word_count, top_terms_override),
                          bigram_frequencies),
             raw_text, bigram_frequencies, case_sensitive, language, examples_per_word)

\* top_word_count and examples_per_word of build_report_data
TopWordCount == 5
ExamplesPerWord == 5

ComparisonAvailableMut(comparison_frequencies) == NonEmpty(comparison_frequencies)

\* `comparison_frequencies is not None`
ComparisonAvailable(comparison_frequencies) == comparison_frequencies # Absent

\* `_compute_analysis(comparison_frequencies, ...) if comparison_frequencies
\* else None`
ComparisonAnalysis(comparison_frequencies, top_n, salt, calls_before) ==
    IF NonEmpty(comparison_frequencies)
    THEN Given(_compute_analysis(comparison_frequencies[1], top_n, salt, calls_before))
    ELSE Absent

\* build_report_data as call number calls_before + 1 of the analysis; now
\* is what _utc_timestamp() returns
build_report_data(freqs, a, now, calls_before) ==
    [generated_at  |-> IF Truthy(a.generated_at) THEN a.generated_at ELSE now,
     analysis      |-> _compute_analysis(freqs, a.top_n, a.salt, calls_before),
     top_word_insights |->
         _build_top_word_insights(freqs, a.raw_text, a.bigram_frequencies,
                                  a.case_sensitive, a.language, TopWordCount,
                                  ExamplesPerWord, a.top_terms_override),
     comparison    |->
         [available |-> ComparisonAvailable(a.comparison_frequencies),
          analysis  |-> ComparisonAnalysis(a.comparison_frequencies, a.top_n, a.salt,
                                           calls_before + 1),
          current   |-> _compute_analysis(freqs, a.top_n, a.salt, calls_before + 2)]]

-----------------------------------------------------------------------------
(* The calls of _compute_analysis and build_report_data the model makes.   *)

MaxCalls == 2

\* the orders the caller inserts the items of a map in when building it
\* again: the rotations of the items and of their reverse
Reorderings(items) ==
    { [i \in 1..Len(items) |-> items[((i + r) % Len(items)) + 1]] :
        r \in 0..(Len(items) - 1) }
    \cup { [i \in 1..Len(items) |-> items[Len(items) - ((i + r) % Len(items))]] :
             r \in 0..(Len(items) - 1) }

Salts == 0..1

\* the maps that are analysed in every insertion order: all but one key of
\* the pool
AnalyzeMaps == { m \in SmallMaps : Len(m) < Cardinality(KeyPool) }

\* {sat: 1, cat: 1}
TiedWords == << [key |-> Sat, count |-> 1], [key |-> Cat, count |-> 1] >>

\* {car: 5, red: 3, blue: 3, bike: 2, big: 1, old: 1}: one key more than the
\* insights list
SixWords ==
    << [key |-> <<"c", "a", "r">>, count |-> 5],
       [key |-> <<"r", "e", "d">>, count |-> 3],
       [key |-> <<"b", "l", "u", "e">>, count |-> 3],
       [key |-> <<"b", "i", "k", "e">>, count |-> 2],
       [key |-> <<"b", "i", "g">>, count |-> 1],
       [key |-> <<"o", "l", "d">>, count |-> 1] >>

\* {bike: 1, car: 2}
TwoWords ==
    << [key |-> <<"b", "i", "k", "e">>, count |-> 1],
       [key |-> <<"c", "a", "r">>, count |-> 2] >>

\* a bigram map with seven bigrams of "car", a single word, a trigram and a
\* bigram with two spaces
CarBigrams ==
    << [key |-> <<"o", "l", "d", " ", "c", "a", "r">>, count |-> 1],
       [key |-> <<"r", "e", "d", " ", "c", "a", "r">>, count |-> 3],
       [key |-> <<"c", "a", "r", " ", "p", "a", "r", "k">>, count |-> 2],
       [key |-> <<"b", "l", "u", "e", " ", "c", "a", "r">>, count |-> 2],
       [key |-> <<"b", "i", "g", " ", "c", "a", "r">>, count |-> 1],
       [key |-> <<"n", "e", "w", " ", "c", "a", "r">>, count |-> 1],
       [key |-> <<"c", "a", "r">>, count |-> 4],
       [key |-> <<"r", "e", "d", " ", "b", "i", "k", "e">>, count |-> 1],
       [key |-> <<"a", " ", "r", "e", "d", " ", "c", "a", "r">>, count |-> 2],
       [key |-> <<"b", "a", "d", " ", " ", "c", "a", "r">>, count |-> 1] >>

\* a text with the bigrams of "car": over a line break, with a stop word
\* between, across a sentence delimiter, in capitals, and more than once
ReportText ==
    <<"r", "e", "d", " ", "c", "a", "r", ".", " ", "b", "l",
       "u", "e", "\n", "c", "a", "r", " ", "p", "a", "r", "k", ";", " ", "o",
       "l", "d", ".", " ", "c", "a", "r", "\n", "t", "h", "e", " ", "b", "i",
       "g", " ", "a", " ", "c", "a", "r", "!", " ", "N", "E", "W", " ", "C",
       "A", "R", ".", "x", "\n", "r", "e", "d", " ", "c", "a", "r", " ", "r",
       "e", "d", " ", "t", "h", "e", " ", "c", "a", "r">>

ShortText ==
    <<"A", " ", "r", "e", "d", " ", "c", "a", "r", " ", "p",
       "a", "r", "k">>

\* the arguments of build_report_data that are not varied
ReportDefaults ==
    [fn |-> "build_report_data", top_n |-> 2, salt |-> 0,
     comparison_frequencies |-> Absent, bigram_frequencies |-> Absent,
     raw_text |-> NoText, top_terms_override |-> Absent,
     case_sensitive |-> FALSE, language |-> "english", generated_at |-> <<"t">>]

OverrideLists ==
    { Absent, Given(<<>>), Given(<<Cat>>),
      Given(<< <<"b", "i", "k", "e">>, <<"c", "a", "r">>, <<"c", "a", "r">> >>) }

\* the insights on every kind of bigram map, text and override list
InsightCalls ==
    { [ReportDefaults EXCEPT !.bigram_frequencies = b, !.raw_text = t,
                             !.top_terms_override = o, !.case_sensitive = c,
                             !.language = l] :
        b \in { Absent, Given(<<>>), Given(CarBigrams), Given(Reverse(CarBigrams)) },
        t \in { NoText, <<>>, ReportText, ShortText },
        o \in OverrideLists, c \in BOOLEAN, l \in {"english", "klingon"} }

\* the comparison on no map, the empty map and a map
ComparisonCalls ==
    { [ReportDefaults EXCEPT !.comparison_frequencies = m, !.salt = x,
                             !.generated_at = g] :
        m \in { Absent, Given(<<>>), Given(TwoWords), Given(ScenarioMap) },
        x \in Salts, g \in { NoText, <<"t">> } }

\* what _utc_timestamp() can return
Clock == { <<"0">>, <<"1">> }

InitAnalyze ==
    /\ pc = "call"
    /\ \/ /\ args \in [fn : {"_compute_analysis"}, top_n : {2}, salt : Salts]
          /\ frequencies \in AnalyzeMaps
       \/ /\ args \in InsightCalls
          /\ frequencies \in { <<>>, TwoWords, SixWords }
       \/ /\ args \in ComparisonCalls
          /\ frequencies \in { <<>>, TiedWords, ScenarioMap }
    /\ text = None /\ text_processed = None /\ error = "none"
    /\ trace = <<>>
    /\ ret = None

\* one call of _compute_analysis on the map
Analyze ==
    /\ pc \in {"call", "return"}
    /\ args.fn = "_compute_analysis"
    /\ Len(trace) < MaxCalls
    /\ ret' = _compute_analysis(frequencies, args.top_n, args.salt, Len(trace))
    /\ trace' = Append(trace, [frequencies |-> frequencies, result |-> ret'])
    /\ pc' = "return"
    /\ UNCHANGED <<args, text, text_processed, frequencies, error>>

\* one call of build_report_data on the map; every call of it calls
\* _compute_analysis up to three times
CallBuildReportData ==
    /\ pc \in {"call", "return"}
    /\ args.fn = "build_report_data"
    /\ Len(trace) < MaxCalls
    /\ \E now \in Clock :
           ret' = build_report_data(frequencies, args, now, 3 * Len(trace))
    /\ trace' = Append(trace, [frequencies |-> frequencies, result |-> ret'])
    /\ pc' = "return"
    /\ UNCHANGED <<args, text, text_processed, frequencies, error>>

\* the caller builds a map with the same items in another insertion order
Rebuild ==
    /\ pc = "return"
    /\ Len(trace) < MaxCalls
    /\ frequencies \in AnalyzeMaps
    /\ frequencies' \in Reorderings(frequencies) \ {frequencies}
    /\ pc' = "call"
    /\ UNCHANGED <<args, text, text_processed, error, trace, ret>>

NextAnalyze == Analyze \/ CallBuildReportData \/ Rebuild

SpecAnalyze == InitAnalyze /\ [][NextAnalyze]_vars

\* the items of a map, whatever their order
Content(freqs) == { freqs[i] : i \in 1..Len(freqs) }

\* the analysis of the map in what a call returned
AnalysisOf(result) ==
    IF args.fn = "_compute_analysis" THEN result ELSE result.analysis

-----------------------------------------------------------------------------
(* The concentration table.                                                *)

ConcentrationReturned ==
    pc = "return" /\ args.fn \in {"_compute_analysis", "_vocabulary_concentration"}

\* the table the call returned, and the buckets it was asked for
ReturnedTable == IF args.fn = "_compute_analysis" THEN ret.concentration ELSE ret
AskedBuckets ==
    IF args.fn = "_compute_analysis" THEN { AnalysisBuckets[i] : i \in 1..Len(AnalysisBuckets) }
    ELSE { args.buckets[i] : i \in 1..Len(args.buckets) }

\* x <= y on fractions with positive denominators
FracLeq(x, y) == x[1] * y[2] <= y[1] * x[2]

(* C22: for every frequency map with non-negative counts and every two     *)
(* requested bucket sizes b1 < b2 the share of the total of b1 is at most  *)
(* the share of the total of b2, and every share of the total lies between *)
(* 0 and 100.                                                              *)
C22_ConcentrationMonotone ==
    ConcentrationReturned =>
        /\ \A b1, b2 \in DOMAIN ReturnedTable :
              b1 < b2 => FracLeq(ReturnedTable[b1].percent_of_total,
                                 ReturnedTable[b2].percent_of_total)
        /\ \A b \in DOMAIN ReturnedTable :
              /\ ReturnedTable[b].percent_of_total[2] > 0
              /\ FracLeq(<<0, 1>>, ReturnedTable[b].percent_of_total)
              /\ FracLeq(ReturnedTable[b].percent_of_total, <<100, 1>>)

\* two buckets asked for in descending order, the smaller one covering
\* strictly less of a map of three keys
C22_Witness ==
    /\ pc = "return"
    /\ args.fn = "_vocabulary_concentration"
    /\ args.buckets = <<2, 1>>
    /\ Len(args.frequencies) = 3
    /\ ~FracLeq(ret[2].percent_of_total, ret[1].percent_of_total)

(* C23: every requested bucket has an entry, and a bucket larger than the  *)
(* number of unique keys holds the final cumulative totals of the walk:    *)
(* the share of the total covered by all keys (100 when the total is       *)
(* positive) and the share of the unique keys covered, which is 100 and    *)
(* never more.                                                             *)
C23_ShortMapBucketHoldsFinalTotals ==
    ConcentrationReturned =>
        /\ DOMAIN ReturnedTable = AskedBuckets
        /\ \A b \in DOMAIN ReturnedTable :
              (b > Len(args.frequencies) /\ SumCounts(args.frequencies) > 0) =>
                  /\ ReturnedTable[b].percent_of_total = <<100, 1>>
                  /\ ReturnedTable[b].percent_of_unique = <<100, 1>>

-----------------------------------------------------------------------------
(* Direct calls of the lemma resolver: normalize_single_word and           *)
(* normalize_plurals_with_lemmatization.                                   *)

MaxLemmaChunks == 3

LemmaWords ==
    { <<"c", "a", "t", "s">>, <<"C", "a", "t", "s">>, <<"c", "a", "s", "a", "s">>,
      <<"C", "a", "s", "a", "s">>, <<"l", "u", "c", "e", "s">>, <<"L", "u", "c", "e", "s">>,
      <<"L", "U", "C", "E", "S">>, <<"s", "e", "r", "i", "e", "s">>,
      <<"l", "e", "y", "e", "s">>, <<"t", "r", "e", "s">>, <<"a", "c", "e", "s">>,
      <<"e", "s">>, <<"a", "b">>, <<"a">>, <<"1", "2">>, <<"a", "1", "s", "s">>,
      Paises, <<"P", "a", "í", "s", "e", "s">>, <<>> }

LemmaChunks ==
    { <<"c", "a", "t", "s">>, <<"C", "a", "s", "a", "s">>, <<"l", "u", "c", "e", "s">>,
      <<"L", "U", "C", "E", "S">>, <<"a">>, <<"1", "2">>, <<" ">>, <<".">>, <<"_">> }

LemmaTexts == TextsOver(LemmaChunks, MaxLemmaChunks)

LemmaLanguages == {"spanish", "english", "klingon"}

\* the library at work, absent, raising, and the stand-in
LemmaStates == {"available", "missing", "failing", "degenerate"}

InitLemma ==
    /\ pc = "call"
    /\ \/ args \in [fn : {"normalize_single_word"}, word : LemmaWords,
                    language : LemmaLanguages, simplemma : LemmaStates]
       \/ args \in [fn : {"normalize_plurals_with_lemmatization"}, text : LemmaTexts,
                    language : LemmaLanguages, simplemma : LemmaStates]
    /\ ret = None
    /\ Idle

CallNormalizeSingleWord ==
    /\ pc = "call"
    /\ args.fn = "normalize_single_word"
    /\ ret' = normalize_single_word(args.word, args.language, args.simplemma)
    /\ pc' = "return"
    /\ UNCHANGED <<args, text, text_processed, frequencies, error, trace>>

CallNormalizePlurals ==
    /\ pc = "call"
    /\ args.fn = "normalize_plurals_with_lemmatization"
    /\ ret' = normalize_plurals_with_lemmatization(args.text, args.language, args.simplemma)
    /\ pc' = "return"
    /\ UNCHANGED <<args, text, text_processed, frequencies, error, trace>>

NextLemma == CallNormalizeSingleWord \/ CallNormalizePlurals

SpecLemma == InitLemma /\ [][NextLemma]_vars

SingleReturned == pc = "return" /\ args.fn = "normalize_single_word"

\* the language has a lemmatization capability: the library is there and
\* knows the language
Capable == args.simplemma # "missing" /\ lang_map(args.language) # None

\* what the lookup of the word gives
Lookup == simplemma_lemmatize(args.word, lang_map(args.language), args.simplemma)

(* C24: normalize_single_word returns the word unchanged when the language *)
(* has no lemmatization capability, when the candidate lemma is shorter    *)
(* than 2 characters or equals the word but for the case, and, for a       *)
(* language other than Spanish, when the lookup fails.                     *)
C24_ResolverKeepsWord ==
    SingleReturned =>
        /\ ~Capable => ret = args.word
        /\ (Capable /\ ~Lookup.raised
              /\ (Len(Lookup.value) < 2 \/ lower(Lookup.value) = lower(args.word)))
              => ret = args.word
        /\ (Capable /\ Lookup.raised /\ args.language # "spanish") => ret = args.word

\* a candidate of one character for a word of four
C24_Witness ==
    /\ SingleReturned
    /\ Capable
    /\ ~Lookup.raised
    /\ Len(Lookup.value) = 1
    /\ Len(args.word) = 4
    /\ ret = args.word

\* the rules -ces -> z, -ies -> y, -es, -s in this order on a lower-case
\* word: the first one that applies and leaves at least 3 characters
StripSuffix(w) ==
    IF endswith(w, <<"c", "e", "s">>) /\ Len(w) >= 5 THEN DropLast(w, 3) \o <<"z">>
    ELSE IF endswith(w, <<"i", "e", "s">>) /\ Len(w) >= 5 THEN DropLast(w, 3) \o <<"y">>
    ELSE IF endswith(w, <<"e", "s">>) /\ Len(w) >= 5 THEN DropLast(w, 2)
    ELSE IF endswith(w, <<"s">>) /\ Len(w) >= 4 THEN DropLast(w, 1)
    ELSE w

\* a Spanish word the fallback is for: the library is absent or raises
FallbackCase ==
    /\ SingleReturned
    /\ args.language = "spanish"
    /\ args.simplemma \in {"missing", "failing"}
    /\ Len(args.word) >= 2 /\ ~isdigit(args.word)

(* C25: for Spanish the suffix rules -ces, -ies, -es, -s are applied, in   *)
(* this order, both when the library is absent and when it raises; the     *)
(* result starts with a capital exactly when the word does, and is never   *)
(* shorter than 3 characters when a rule applied.                          *)
C25_FallbackWhenAbsentOrFailing ==
    FallbackCase =>
        /\ lower(ret) = StripSuffix(lower(args.word))
        /\ IsUpperChar(ret[1]) <=> IsUpperChar(args.word[1])
        /\ ret # args.word => Len(ret) >= 3

\* the tokens of \b\w+\b: position i starts one, and it ends before j
TokenStart(s, i) == IsWord(s[i]) /\ (i = 1 \/ ~IsWord(s[i - 1]))
TokenEnd(s, i) ==
    CHOOSE j \in (i + 1)..(Len(s) + 1) :
        /\ \A k \in i..(j - 1) : IsWord(s[k])
        /\ j = Len(s) + 1 \/ ~IsWord(s[j])

\* the text with every word token replaced by normalize_single_word of it
\* and every other character left where it is
TokensResolved(s, language, simplemma) ==
    Flatten([i \in 1..Len(s) |->
                IF TokenStart(s, i)
                THEN normalize_single_word(SubSeq(s, i, TokenEnd(s, i) - 1),
                                           language, simplemma)
                ELSE IF IsWord(s[i]) THEN <<>>
                ELSE <<s[i]>>])

PluralsReturned == pc = "return" /\ args.fn = "normalize_plurals_with_lemmatization"

(* C30: for every text and language the text-level lemmatizer returns the  *)
(* text in which each word token is replaced by what the word-level        *)
(* lemmatizer returns for it, all other characters untouched.              *)
C30_TextLevelIsWordLevel ==
    PluralsReturned => ret = TokensResolved(args.text, args.language, args.simplemma)

\* a Spanish text of two words and a separator that the raising library
\* leaves to the fallback, which changes both words
C30_Witness ==
    /\ PluralsReturned
    /\ args.language = "spanish"
    /\ args.simplemma = "failing"
    /\ args.text = <<"C", "a", "s", "a", "s", ".", "l", "u", "c", "e", "s">>
    /\ ret = <<"C", "a", "s", "a", ".", "l", "u", "z">>

-----------------------------------------------------------------------------
(* process_text_to_frequencies with a replace_stage that is neither        *)
(* 'original' nor 'processed'.                                             *)

UnknownStage == TextCall /\ args.replace_stage \notin {"original", "processed"}

\* replacements are configured for the call: a literal or regex
\* search, or a regex_rule argument
ReplacementsConfigured ==
    Truthy(args.replace_search) \/ Truthy(args.regex_rule)

\* every call of a stage was handed what the call before it returned
Chained == \A i \in 2..Len(trace) : trace[i].input = trace[i - 1].output

(* C28: with a replace_stage other than 'original' and 'processed' the     *)
(* literal and regex replacements, the regex_rule argument included, are   *)
(* skipped and their rules are never compiled: no replacement stage is     *)
(* called, no error comes from the selector or from a rule, and the call   *)
(* returns the frequency map counted from the text that was read,          *)
(* excluded from, normalized and lemmatized only.                          *)
C28_UnknownStageSkipsReplacements ==
    UnknownStage =>
        /\ ReplacementIndexes = {}
        /\ pc = "failed" => error.origin \in {"exclude_words", "count"}
        /\ pc = "done" =>
              /\ \A i \in 1..Len(trace) :
                    trace[i].stage \in {"read", "exclude", "normalize", "lemmatize", "count"}
              /\ Chained
              /\ trace[Len(trace)].stage = "count"
              /\ frequencies = trace[Len(trace)].output

\* a call with the selector 'both' and the rule "(" that does not compile
\* returns the counts of its text
C28_Witness ==
    /\ UnknownStage
    /\ pc = "done"
    /\ args.regex_rule = <<"(">>
    /\ Truthy(args.replace_search)
    /\ frequencies # <<>>

-----------------------------------------------------------------------------
(* The report data: the comparison record, the top-word insights and the   *)
(* frame of the calls.                                                     *)

ReportReturned == pc = "return" /\ args.fn = "build_report_data"

(* C29: in the report data build_report_data returns, comparison.available *)
(* is true exactly when comparison.analysis is present (not None), for     *)
(* every comparison map, the empty map included.                           *)
C29_ComparisonConsistent ==
    ReportReturned
        => (ret.comparison.available <=> ret.comparison.analysis # Absent)

\* available is true exactly when a comparison map is passed, and the
\* analysis is present exactly when that map has a key: the two agree but
\* for the empty map, which is available with no analysis
C29_AvailableWhenPassedAnalysisWhenNonEmpty ==
    ReportReturned
        => /\ ret.comparison.available <=> args.comparison_frequencies # Absent
           /\ ret.comparison.analysis # Absent
                 <=> NonEmpty(args.comparison_frequencies)
           /\ args.comparison_frequencies # Given(<<>>)
                 => (ret.comparison.available <=> ret.comparison.analysis # Absent)

\* a report on the empty comparison map: available, with no analysis
C29_Witness ==
    /\ ReportReturned
    /\ args.comparison_frequencies = Given(<<>>)
    /\ ret.comparison.available
    /\ ret.comparison.analysis = Absent
    /\ ret.comparison.current = ret.analysis

\* the items of a set of items that have the key
IsKey(S, k) == \E x \in S : x.key = k
ItemOf(S, k) == CHOOSE x \in S : x.key = k

\* keys are the n highest-ranked keys of the items S, or all of them when
\* there are fewer, by (descending count, ascending key), in rank order
TopKeys(S, n, keys) ==
    /\ Len(keys) = Min2(n, Cardinality(S))
    /\ \A i \in 1..Len(keys) : IsKey(S, keys[i])
    /\ \A i, j \in 1..Len(keys) :
           i < j => SortKeyBefore(ItemOf(S, keys[i]), ItemOf(S, keys[j]))
    /\ \A x \in S :
           (\A i \in 1..Len(keys) : keys[i] # x.key)
               => \A i \in 1..Len(keys) : SortKeyBefore(ItemOf(S, keys[i]), x)

\* the keys of the bigram map passed in which the term is the first or the
\* second of two tokens
BigramsOf(term) ==
    IF args.bigram_frequencies = Absent THEN {}
    ELSE { x \in Content(args.bigram_frequencies[1]) :
             /\ Len(Fields(x.key)) = 2
             /\ term \in { Fields(x.key)[1], Fields(x.key)[2] } }

SelectedTerms ==
    { ret.top_word_insights.top_terms[i] :
        i \in 1..Len(ret.top_word_insights.top_terms) }

ReportedBigrams(term) == ItemsOf(ret.top_word_insights.bigrams.items, term)

\* the bigrams reported for every selected word are the five highest-ranked
\* of its bigrams with their counts, and no word has more examples than
\* examples_per_word
BigramsRankedExamplesCapped ==
    /\ \A t \in SelectedTerms :
          /\ TopKeys(BigramsOf(t), 5,
                     [i \in 1..Len(ReportedBigrams(t)) |-> ReportedBigrams(t)[i].bigram])
          /\ \A i \in 1..Len(ReportedBigrams(t)) :
                 ReportedBigrams(t)[i].count
                     = ItemOf(BigramsOf(t), ReportedBigrams(t)[i].bigram).count
    /\ \A t \in DOMAIN ret.top_word_insights.examples.items :
           Len(ret.top_word_insights.examples.items[t]) <= ExamplesPerWord

(* C26: the top-word insights select exactly the caller's override list    *)
(* when one is supplied and otherwise the top 5 keys of the frequency map  *)
(* by (descending count, ascending key); for each selected word the        *)
(* reported bigrams are exactly the (up to) 5 highest-ranked keys of the   *)
(* bigram map, by (descending count, ascending bigram text), in which the  *)
(* word is the first or the second token, and the number of context        *)
(* examples per word never exceeds examples_per_word.                      *)
C26_OverrideOrTopFive ==
    ReportReturned
        => /\ IF args.top_terms_override # Absent
              THEN ret.top_word_insights.top_terms = args.top_terms_override[1]
              ELSE TopKeys(Content(frequencies), 5, ret.top_word_insights.top_terms)
           /\ BigramsRankedExamplesCapped

\* the same with the override list taken only when it has a word: an empty
\* list selects the top 5 keys as no list does
C26_NonEmptyOverrideOrTopFive ==
    ReportReturned
        => /\ IF NonEmpty(args.top_terms_override)
              THEN ret.top_word_insights.top_terms = args.top_terms_override[1]
              ELSE TopKeys(Content(frequencies), 5, ret.top_word_insights.top_terms)
           /\ BigramsRankedExamplesCapped

\* six words and no override list: five are selected, "car" has seven
\* bigrams in the map and five reported, with examples found
C26_Witness ==
    /\ ReportReturned
    /\ frequencies = SixWords
    /\ args.top_terms_override = Absent
    /\ args.bigram_frequencies = Given(CarBigrams)
    /\ args.raw_text = ReportText
    /\ Len(ret.top_word_insights.top_terms) = 5
    /\ Cardinality(BigramsOf(<<"c", "a", "r">>)) = 7
    /\ Len(ret.top_word_insights.bigrams.items[<<"c", "a", "r">>]) = 5
    /\ Len(ret.top_word_insights.examples.items[<<"c", "a", "r">>]) >= 2

\* an empty override list on a map with words: the top keys are selected
C26_EmptyOverrideWitness ==
    /\ ReportReturned
    /\ frequencies = SixWords
    /\ args.top_terms_override = Given(<<>>)
    /\ Len(ret.top_word_insights.top_terms) = 5

\* what a call returned but for the time stamp, which is the clock's when
\* the caller gives none
Computed(result) ==
    IF args.fn = "_compute_analysis" \/ Truthy(args.generated_at) THEN result
    ELSE [result EXCEPT !.generated_at = NoText]

(* C27: computing an analysis and building report data have no side        *)
(* effects and keep no state: every call leaves the frequency map and the  *)
(* comparison map, bigram map and other arguments passed in unchanged, and *)
(* returns what every earlier call on the same map returned, so a sequence *)
(* of calls on a map gives the result of a single call; within one report  *)
(* the two analyses of the map are the same.                               *)
C27_NoSideEffectNoRetainedState ==
    [][pc' = "return"
          => /\ frequencies' = frequencies
             /\ args' = args
             /\ \A i \in 1..Len(trace) :
                    trace[i].frequencies = frequencies
                        => Computed(trace[i].result) = Computed(ret')
             /\ args.fn = "build_report_data"
                    => ret'.comparison.current = ret'.analysis]_vars

\* a second report on the same map of two words counted once, with a
\* comparison map: the same as the first
C27_Witness ==
    /\ ReportReturned
    /\ Len(trace) = 2
    /\ frequencies = TiedWords
    /\ trace[1].frequencies = trace[2].frequencies
    /\ args.comparison_frequencies = Given(TwoWords)
    /\ Len(ret.analysis.hapax.sample) = 2
    /\ ret.comparison.analysis # Absent
    /\ Computed(trace[1].result) = Computed(trace[2].result)

=============================================================================
